---- MODULE Spec2Model ----
(***************************************************************************)
(* Match-3 engine of Game.ts / Grid.ts: the grid, match detection, the     *)
(* match pass with its inline chain expansion, the explosion engine,       *)
(* gravity and refill, and the pointer handlers that start a swap.  Every  *)
(* animation the code awaits is a point where another handler may run, so  *)
(* each performSwap call is a process whose steps are the code between two *)
(* awaited animations.                                                     *)
(***************************************************************************)
EXTENDS Integers, Sequences, FiniteSets, TLC

\* ---------------------------------------------------------------- bounds
\* Number of gem types and starting moves, scaled down from the values the
\* code sets (4 types, 30 moves).
GemTypes == 2
StartMoves == 1
\* Gems created after the initial board (spawned specials and refills).
MaxNewGems == 4
\* performSwap calls ever started, and async handlers pending at once.
MaxSwaps == 2
MaxProcs == 2
\* The boards a match pass is tried on: every board of BoxRows x BoxCols
\* cells with at most BoxSpecials special gems, and every board of one row of
\* LineCols cells with at most LineSpecials special gems.
BoxRows == 3
BoxCols == 3
BoxSpecials == 1
LineCols == 5
LineSpecials == 2
\* The boards the cascade loop is followed on, and the value at which score
\* is held there.
CascadeRows == 2
CascadeCols == 3
ScoreCap == 60
\* The boards a swap of two special gems is tried on: SpecialRows x
\* SpecialCols cells and one row of SpecialLine cells, with at most
\* SpecialOthers special gems besides the two swapped, and room for
\* SpecialNewGems new gems (one refill of the whole board).
SpecialRows == 2
SpecialCols == 3
SpecialLine == 5
SpecialOthers == 1
SpecialNewGems == 6
\* The length of the one-row and one-column boards of plain gems a straight
\* run is resolved on.
RunLen == 5
\* The new gems a session on the board of two pluses may create: two refills.
ClearNewGems == 6
\* The board any set of tiles is removed from, and the new gems it may get.
\* How far outside the board coordinates are tried: a blast of radius 2
\* around a border cell.
Margin == 2
\* The square board and the length of the one-row and one-column boards
\* that start() fills.
StartSide == 3
StartLine == 5
\* The sides of the boards that are filled draw by draw.
DrawRows == 2
DrawCols == 3
\* "attempts < 10" in initializeGrid.
MaxAttempts == 10
GravityRows == 3
GravityCols == 2
GravityNewGems == 8

VARIABLES
    config,      \* Grid.config: rows and cols of the board (and how the
                 \* state is kept finite: see Recycle, and maxGems, the
                 \* number of Gem objects a run may construct)
    gems,        \* every Gem object ever constructed, by identity (index)
    grid,        \* Grid.gems: cell -> gem identity, 0 for null
    state,       \* Game.state
    score,       \* Game.score
    moves,       \* Game.moves
    selectedGem, \* Game.selectedGem, 0 for null
    draggingGem, \* Game.draggingGem, 0 for null (the window listeners live with it)
    interactive, \* grid.interactiveChildren
    handlers,    \* gems that carry pointerdown / pointertap handlers
    procs,       \* pending async handlers: performSwap calls and drag releases
    pointerDown, \* the pointer is pressed (between pointerdown and pointerup)
    swaps        \* number of performSwap calls so far

vars == <<config, gems, grid, state, score, moves, selectedGem, draggingGem,
          interactive, handlers, procs, pointerDown, swaps>>

\* ------------------------------------------------------------------ Gem
Rows == config.rows
Cols == config.cols
Cells == (0 .. (Rows - 1)) \X (0 .. (Cols - 1))
Types == 0 .. (GemTypes - 1)

\* new Gem(type, col, row, special)
Gem(type, col, row, special) ==
    [type |-> type, special |-> special, gridX |-> col, gridY |-> row,
     isMatched |-> FALSE]

isBomb(gm, g) == gm[g].special = "bomb"
isPlus(gm, g) == gm[g].special = "plus"

\* gem.setGridPosition(col, row)
setGridPosition(gm, g, col, row) ==
    [gm EXCEPT ![g].gridX = col, ![g].gridY = row]

\* -------------------------------------------------------- small helpers
Abs(x) == IF x < 0 THEN 0 - x ELSE x

\* "const x = v; body": the value is computed once and named in the body.
Bind(v, Body(_)) == CHOOSE r \in {Body(x) : x \in {v}} : TRUE

RECURSIVE SeqToSet(_)
SeqToSet(s) == IF s = <<>> THEN {} ELSE {Head(s)} \cup SeqToSet(Tail(s))

InSeq(x, s) == \E i \in 1 .. Len(s) : s[i] = x

\* Set.add on an insertion-ordered set kept as a sequence.
AddOnce(s, x) == IF InSeq(x, s) THEN s ELSE Append(s, x)

RECURSIVE AddAll(_, _)
AddAll(s, xs) ==
    IF xs = <<>> THEN s
    ELSE Bind(AddOnce(s, Head(xs)), LAMBDA t : AddAll(t, Tail(xs)))

RECURSIVE Flatten(_)
Flatten(ss) == IF ss = <<>> THEN <<>> ELSE Head(ss) \o Flatten(Tail(ss))

\* ----------------------------------------------------------------- Grid
EmptyGrid == [cell \in Cells |-> 0]

\* Fault injection: a getGemAt that answers for the nearest cell of the board.
getGemAtClamped(gr, row, col) ==
    gr[<<IF row < 0 THEN 0 ELSE IF row >= Rows THEN Rows - 1 ELSE row,
         IF col < 0 THEN 0 ELSE IF col >= Cols THEN Cols - 1 ELSE col>>]

\* Grid.getGemAt
getGemAt(gr, row, col) ==
    IF row < 0 \/ row >= Rows \/ col < 0 \/ col >= Cols THEN 0 ELSE gr[<<row, col>>]

\* Grid.createGemAt: the new gem's identity is Len(gm) + 1
createGemAt(gr, gm, row, col, type, special) ==
    [grid |-> [gr EXCEPT ![<<row, col>>] = Len(gm) + 1],
     gems |-> Append(gm, Gem(type, col, row, special))]

\* Grid.swapGems
swapGems(gr, gm, gem1, gem2) ==
    LET row1 == gm[gem1].gridY
        col1 == gm[gem1].gridX
        row2 == gm[gem2].gridY
        col2 == gm[gem2].gridX
        gr1 == [gr EXCEPT ![<<row1, col1>>] = gem2]
        gr2 == [gr1 EXCEPT ![<<row2, col2>>] = gem1]
        gm1 == setGridPosition(gm, gem1, col2, row2)
        gm2 == setGridPosition(gm1, gem2, col1, row1)
    IN [grid |-> gr2, gems |-> gm2]

\* Grid.areAdjacent
\* Fault injection: an adjacency test that also accepts the diagonal cells.
areAdjacentDiagonal(gm, gem1, gem2) ==
    LET dx == Abs(gm[gem1].gridX - gm[gem2].gridX)
        dy == Abs(gm[gem1].gridY - gm[gem2].gridY)
    IN dx <= 1 /\ dy <= 1 /\ dx + dy > 0

areAdjacent(gm, gem1, gem2) ==
    LET dx == Abs(gm[gem1].gridX - gm[gem2].gridX)
        dy == Abs(gm[gem1].gridY - gm[gem2].gridY)
    IN (dx = 1 /\ dy = 0) \/ (dx = 0 /\ dy = 1)

\* A cell holds a gem of type t (the "gem && gem.type === type" test).
HasType(gr, gm, row, col, t) ==
    gr[<<row, col>>] # 0 /\ gm[gr[<<row, col>>]].type = t

RECURSIVE CountDir(_, _, _, _, _, _, _)
\* Number of consecutive cells of type t from (row, col) in direction (dr, dc).
CountDir(gr, gm, row, col, dr, dc, t) ==
    IF row < 0 \/ row >= Rows \/ col < 0 \/ col >= Cols THEN 0
    ELSE IF HasType(gr, gm, row, col, t)
         THEN 1 + CountDir(gr, gm, row + dr, col + dc, dr, dc, t)
         ELSE 0

\* Fault injection: a wouldCreateMatch that forgets the vertical check.
wouldCreateMatchInRow(gr, gm, row, col, type) ==
    1 + CountDir(gr, gm, row, col - 1, 0, -1, type)
      + CountDir(gr, gm, row, col + 1, 0, 1, type) >= 3

\* Grid.wouldCreateMatch
wouldCreateMatch(gr, gm, row, col, type) ==
    LET horizontalCount == 1 + CountDir(gr, gm, row, col - 1, 0, -1, type)
                             + CountDir(gr, gm, row, col + 1, 0, 1, type)
        verticalCount == 1 + CountDir(gr, gm, row - 1, col, -1, 0, type)
                           + CountDir(gr, gm, row + 1, col, 1, 0, type)
    IN horizontalCount >= 3 \/ verticalCount >= 3

\* Fault injection: a findMatches that never extends a run beyond 3 tiles.
ExtendNever(gr, gm, row, col, dr, dc, t) == <<>>

RECURSIVE Extend(_, _, _, _, _, _, _)
\* The "extend match if possible" loop of findMatches.
Extend(gr, gm, row, col, dr, dc, t) ==
    IF row < Rows /\ col < Cols /\ HasType(gr, gm, row, col, t)
    THEN <<gr[<<row, col>>]>> \o Extend(gr, gm, row + dr, col + dc, dr, dc, t)
    ELSE <<>>

\* The three-in-a-row test at (row, col) in direction (dr, dc).
Three(gr, gm, row, col, dr, dc) ==
    LET gem1 == gr[<<row, col>>]
        gem2 == gr[<<row + dr, col + dc>>]
        gem3 == gr[<<row + 2 * dr, col + 2 * dc>>]
    IN /\ gem1 # 0 /\ gem2 # 0 /\ gem3 # 0
       /\ gm[gem1].type = gm[gem2].type
       /\ gm[gem2].type = gm[gem3].type

RECURSIVE ScanRow(_, _, _, _)
ScanRow(gr, gm, row, col) ==
    IF col >= Cols - 2 THEN <<>>
    ELSE IF Three(gr, gm, row, col, 0, 1)
         THEN LET g1 == gr[<<row, col>>]
                  matchGroup == <<g1, gr[<<row, col + 1>>], gr[<<row, col + 2>>]>>
                                \o Extend(gr, gm, row, col + 3, 0, 1, gm[g1].type)
              IN <<matchGroup>> \o ScanRow(gr, gm, row, col + Len(matchGroup))
         ELSE ScanRow(gr, gm, row, col + 1)

RECURSIVE ScanCol(_, _, _, _)
ScanCol(gr, gm, col, row) ==
    IF row >= Rows - 2 THEN <<>>
    ELSE IF Three(gr, gm, row, col, 1, 0)
         THEN LET g1 == gr[<<row, col>>]
                  matchGroup == <<g1, gr[<<row + 1, col>>], gr[<<row + 2, col>>]>>
                                \o Extend(gr, gm, row + 3, col, 1, 0, gm[g1].type)
              IN <<matchGroup>> \o ScanCol(gr, gm, col, row + Len(matchGroup))
         ELSE ScanCol(gr, gm, col, row + 1)

RECURSIVE HorizontalMatches(_, _, _)
HorizontalMatches(gr, gm, row) ==
    IF row >= Rows THEN <<>>
    ELSE ScanRow(gr, gm, row, 0) \o HorizontalMatches(gr, gm, row + 1)

RECURSIVE VerticalMatches(_, _, _)
VerticalMatches(gr, gm, col) ==
    IF col >= Cols THEN <<>>
    ELSE ScanCol(gr, gm, col, 0) \o VerticalMatches(gr, gm, col + 1)

\* Grid.findMatches
findMatches(gr, gm) == HorizontalMatches(gr, gm, 0) \o VerticalMatches(gr, gm, 0)

RECURSIVE removeGems(_, _, _)
\* Grid.removeGems
removeGems(gr, gm, list) ==
    IF list = <<>> THEN [grid |-> gr, gems |-> gm]
    ELSE LET gem == Head(list)
         IN Bind([grid |-> [gr EXCEPT ![<<gm[gem].gridY, gm[gem].gridX>>] = 0],
                  gems |-> [gm EXCEPT ![gem].isMatched = TRUE]],
                 LAMBDA n : removeGems(n.grid, n.gems, Tail(list)))

\* Fault injection: a search that looks at the top row only.
FindAboveTop(gr, col, r) == IF r >= 0 /\ gr[<<0, col>>] # 0 THEN 0 ELSE -1

RECURSIVE FindAbove(_, _, _)
\* The "find gem above to drop" loop: the nearest non-empty row above, or -1.
FindAbove(gr, col, r) ==
    IF r < 0 THEN -1
    ELSE IF gr[<<r, col>>] # 0 THEN r ELSE FindAbove(gr, col, r - 1)

RECURSIVE GravityFrom(_, _, _, _, _)
\* The loops of applyGravity from (col, row) on: columns left to right, rows bottom up.
GravityFrom(gr, gm, hasMoved, col, row) ==
    IF col >= Cols THEN [grid |-> gr, gems |-> gm, hasMoved |-> hasMoved]
    ELSE IF row < 0 THEN GravityFrom(gr, gm, hasMoved, col + 1, Rows - 1)
    ELSE IF gr[<<row, col>>] = 0 /\ FindAbove(gr, col, row - 1) >= 0
         THEN LET r == FindAbove(gr, col, row - 1)
                  gem == gr[<<r, col>>]
              IN Bind([grid |-> [gr EXCEPT ![<<row, col>>] = gem, ![<<r, col>>] = 0],
                       gems |-> setGridPosition(gm, gem, col, row)],
                      LAMBDA n : GravityFrom(n.grid, n.gems, TRUE, col, row - 1))
         ELSE GravityFrom(gr, gm, hasMoved, col, row - 1)

\* Fault injection: an applyGravity that never reports a move.
applyGravityQuiet(gr, gm) == [GravityFrom(gr, gm, FALSE, 0, Rows - 1) EXCEPT !.hasMoved = FALSE]

\* Grid.applyGravity
applyGravity(gr, gm) == GravityFrom(gr, gm, FALSE, 0, Rows - 1)

RECURSIVE FillFrom(_, _, _, _, _, _)
\* The loops of fillEmpty from (col, row) on; draw[cell] is the type
\* getRandomGemType returns for that cell.
FillFrom(gr, gm, newGems, draw, col, row) ==
    IF col >= Cols THEN [grid |-> gr, gems |-> gm, newGems |-> newGems]
    ELSE IF row >= Rows THEN FillFrom(gr, gm, newGems, draw, col + 1, 0)
    ELSE IF gr[<<row, col>>] = 0
         THEN Bind(createGemAt(gr, gm, row, col, draw[<<row, col>>], "none"),
                   LAMBDA c : FillFrom(c.grid, c.gems, Append(newGems, Len(gm) + 1),
                                       draw, col, row + 1))
         ELSE FillFrom(gr, gm, newGems, draw, col, row + 1)

\* Fault injection: a fillEmpty that refills the last column only.
fillLastColumn(gr, gm, draw) == FillFrom(gr, gm, <<>>, draw, Cols - 1, 0)

\* Grid.fillEmpty
fillEmpty(gr, gm, draw) == FillFrom(gr, gm, <<>>, draw, 0, 0)

EmptyCells(gr) == {cell \in Cells : gr[cell] = 0}

RECURSIVE AllGemsFrom(_, _, _)
AllGemsFrom(gr, row, col) ==
    IF row >= Rows THEN <<>>
    ELSE IF col >= Cols THEN AllGemsFrom(gr, row + 1, 0)
    ELSE IF gr[<<row, col>>] # 0
         THEN <<gr[<<row, col>>]>> \o AllGemsFrom(gr, row, col + 1)
         ELSE AllGemsFrom(gr, row, col + 1)

\* Game.getAllGems
getAllGems(gr) == AllGemsFrom(gr, 0, 0)

\* ------------------------------------------------- Game.processMatches
RECURSIVE GroupsOfFrom(_, _, _)
\* gemToGroups.get(g): the indices of the groups that hold g, ascending.
GroupsOfFrom(matches, g, idx) ==
    IF idx > Len(matches) THEN <<>>
    ELSE IF InSeq(g, matches[idx])
         THEN <<idx>> \o GroupsOfFrom(matches, g, idx + 1)
         ELSE GroupsOfFrom(matches, g, idx + 1)

GroupsOf(matches, g) == GroupsOfFrom(matches, g, 1)

\* The keys of gemToGroups in insertion order.
GroupKeys(matches) == AddAll(<<>>, Flatten(matches))

\* detectOrientation
detectOrientation(gm, group) ==
    IF Len(group) = 0 THEN "m"
    ELSE IF \A i \in 1 .. Len(group) : gm[group[i]].gridY = gm[group[1]].gridY THEN "h"
    ELSE IF \A i \in 1 .. Len(group) : gm[group[i]].gridX = gm[group[1]].gridX THEN "v"
    ELSE "m"

RECURSIVE PairsFrom(_, _, _)
\* The (i, j) loops over one gem's group indices, as a sequence of index pairs.
PairsFrom(idxs, i, j) ==
    IF i > Len(idxs) THEN <<>>
    ELSE IF j > Len(idxs) THEN PairsFrom(idxs, i + 1, i + 2)
    ELSE <<(<<idxs[i], idxs[j]>>)>> \o PairsFrom(idxs, i, j + 1)

RECURSIVE UnionPairs(_, _, _)
\* The pairs of group indices merged into an L/T union, in the order the
\* loop over gemToGroups.entries() meets them.
UnionPairs(gm, matches, keys) ==
    IF keys = <<>> THEN <<>>
    ELSE LET idxs == GroupsOf(matches, Head(keys))
             pairs == IF Len(idxs) < 2 THEN <<>> ELSE PairsFrom(idxs, 1, 2)
             ok == SelectSeq(pairs, LAMBDA pr :
                       /\ detectOrientation(gm, matches[pr[1]])
                            # detectOrientation(gm, matches[pr[2]])
                       /\ Len(matches[pr[1]]) >= 3
                       /\ Len(matches[pr[2]]) >= 3)
         IN ok \o UnionPairs(gm, matches, Tail(keys))

RECURSIVE FirstShared(_, _)
\* "the first gem whose group count > 1", 0 for undefined.
FirstShared(matches, unionArr) ==
    IF unionArr = <<>> THEN 0
    ELSE IF Len(GroupsOf(matches, Head(unionArr))) > 1 THEN Head(unionArr)
    ELSE FirstShared(matches, Tail(unionArr))

\* The matches array after the L/T composition, each group with its ltPivot
\* (0 for undefined).
ComposeMatches(gm, matches) ==
    Bind(UnionPairs(gm, matches, GroupKeys(matches)), LAMBDA pairs :
    LET ltGroupsToRemove == UNION {{pairs[k][1], pairs[k][2]} : k \in 1 .. Len(pairs)}
        ltUnions == [k \in 1 .. Len(pairs) |->
                        AddAll(AddAll(<<>>, matches[pairs[k][1]]), matches[pairs[k][2]])]
        keptIdx == SelectSeq([i \in 1 .. Len(matches) |-> i],
                             LAMBDA i : i \notin ltGroupsToRemove)
        kept == [k \in 1 .. Len(keptIdx) |-> [group |-> matches[keptIdx[k]], ltPivot |-> 0]]
        unions == [k \in 1 .. Len(ltUnions) |->
                      [group |-> ltUnions[k], ltPivot |-> FirstShared(matches, ltUnions[k])]]
    IN IF Len(ltUnions) > 0 THEN kept \o unions
       ELSE [i \in 1 .. Len(matches) |-> [group |-> matches[i], ltPivot |-> 0]])

SpawnAt(gm, chosen) ==
    [row |-> gm[chosen].gridY, col |-> gm[chosen].gridX, type |-> gm[chosen].type]

\* group[Math.floor(group.length / 2)]
MiddleOf(group) == group[(Len(group) \div 2) + 1]

\* "for (const g of group) toRemove.add(g)" with the optional queueing of
\* the group's bombs and pluses.
MarkGroup(gm, st, group, withBombs, withPluses) ==
    [st EXCEPT
       !.toRemove = AddAll(@, group),
       !.bombsToExplode =
           IF withBombs THEN AddAll(@, SelectSeq(group, LAMBDA g : isBomb(gm, g))) ELSE @,
       !.plusesToExplode =
           IF withPluses THEN AddAll(@, SelectSeq(group, LAMBDA g : isPlus(gm, g))) ELSE @]

\* Fault injection: a first pass that looks at the length of a group before
\* it looks for specials in it.
CollectGroupByLength(gm, st, entry) ==
    LET group == entry.group
    IN IF entry.ltPivot # 0
       THEN [MarkGroup(gm, st, group, TRUE, TRUE) EXCEPT
               !.bombsToSpawn = Append(@, SpawnAt(gm, entry.ltPivot))]
       ELSE IF Len(group) >= 5
       THEN [MarkGroup(gm, st, group, TRUE, TRUE) EXCEPT
               !.plusesToSpawn = Append(@, SpawnAt(gm, MiddleOf(group)))]
       ELSE IF Len(group) >= 4
       THEN [MarkGroup(gm, st, group, TRUE, TRUE) EXCEPT
               !.bombsToSpawn = Append(@, SpawnAt(gm, MiddleOf(group)))]
       ELSE MarkGroup(gm, st, group, TRUE, TRUE)

\* One iteration of the first pass.
CollectGroup(gm, st, entry) ==
    LET group == entry.group
        bombInGroup == \E i \in 1 .. Len(group) : isBomb(gm, group[i])
        plusInGroup == \E i \in 1 .. Len(group) : isPlus(gm, group[i])
    IN IF entry.ltPivot # 0
       THEN [MarkGroup(gm, st, group, TRUE, TRUE) EXCEPT
               !.bombsToSpawn = Append(@, SpawnAt(gm, entry.ltPivot))]
       ELSE IF plusInGroup /\ bombInGroup THEN MarkGroup(gm, st, group, TRUE, TRUE)
       ELSE IF plusInGroup THEN MarkGroup(gm, st, group, FALSE, TRUE)
       ELSE IF bombInGroup THEN MarkGroup(gm, st, group, TRUE, FALSE)
       ELSE IF Len(group) >= 5
       THEN [MarkGroup(gm, st, group, FALSE, FALSE) EXCEPT
               !.plusesToSpawn = Append(@, SpawnAt(gm, MiddleOf(group)))]
       ELSE IF Len(group) >= 4
       THEN [MarkGroup(gm, st, group, FALSE, FALSE) EXCEPT
               !.bombsToSpawn = Append(@, SpawnAt(gm, MiddleOf(group)))]
       ELSE MarkGroup(gm, st, group, FALSE, FALSE)

RECURSIVE FirstPass(_, _, _)
FirstPass(gm, st, entries) ==
    IF entries = <<>> THEN st
    ELSE Bind(CollectGroup(gm, st, Head(entries)),
              LAMBDA next : FirstPass(gm, next, Tail(entries)))

\* Fault injection: a blast that spares the corners of its square.
DiamondCells(cy, cx, radius) ==
    LET w == 2 * radius + 1
    IN SelectSeq([i \in 1 .. (w * w) |->
                     <<cy - radius + ((i - 1) \div w), cx - radius + ((i - 1) % w)>>],
                 LAMBDA cell : Abs(cell[1] - cy) + Abs(cell[2] - cx) <= radius)

\* The cells of the square of the given radius around (cy, cx), row by row.
SquareCells(cy, cx, radius) ==
    LET w == 2 * radius + 1
    IN [i \in 1 .. (w * w) |-> <<cy - radius + ((i - 1) \div w), cx - radius + ((i - 1) % w)>>]

\* Fault injection: a plus that clears its row only.
RowCells(cy, cx) == [i \in 1 .. Cols |-> <<cy, i - 1>>]

\* The cells of row cy, then the cells of column cx.
CrossCells(cy, cx) ==
    [i \in 1 .. Cols |-> <<cy, i - 1>>] \o [i \in 1 .. Rows |-> <<i - 1, cx>>]

RECURSIVE InlineVisit(_, _, _, _)
\* The body run for each cell of a blast or line in processMatches.
InlineVisit(gr, gm, st, cells) ==
    IF cells = <<>> THEN st
    ELSE LET g == getGemAt(gr, Head(cells)[1], Head(cells)[2])
             newBomb == isBomb(gm, g) /\ ~InSeq(g, st.bombsToExplode)
             newPlus == isPlus(gm, g) /\ ~InSeq(g, st.plusesToExplode)
         IN IF g # 0 /\ ~InSeq(g, st.toRemove)
            THEN Bind([st EXCEPT
                         !.toRemove = Append(@, g),
                         !.explosionAdded = Append(@, g),
                         !.bombsToExplode = IF newBomb THEN Append(@, g) ELSE @,
                         !.queueBombs = IF newBomb THEN Append(@, g) ELSE @,
                         !.plusesToExplode = IF newPlus THEN Append(@, g) ELSE @,
                         !.queuePluses = IF newPlus THEN Append(@, g) ELSE @],
                      LAMBDA next : InlineVisit(gr, gm, next, Tail(cells)))
            ELSE InlineVisit(gr, gm, st, Tail(cells))

\* Fault injection: a pass that sets no queued special off.
InlineExpandNone(gr, gm, st) == st

RECURSIVE InlineExpand(_, _, _)
\* The while loop that expands the removal set in processMatches.
InlineExpand(gr, gm, st) ==
    IF st.queueBombs # <<>>
    THEN LET bomb == Head(st.queueBombs)
         IN Bind(InlineVisit(gr, gm, [st EXCEPT !.queueBombs = Tail(@)],
                             SquareCells(gm[bomb].gridY, gm[bomb].gridX, 1)),
                 LAMBDA next : InlineExpand(gr, gm, next))
    ELSE IF st.queuePluses # <<>>
    THEN LET plus == Head(st.queuePluses)
         IN Bind(InlineVisit(gr, gm, [st EXCEPT !.queuePluses = Tail(@)],
                             CrossCells(gm[plus].gridY, gm[plus].gridX)),
                 LAMBDA next : InlineExpand(gr, gm, next))
    ELSE st

\* removedCount * 10 + bonusFromSpawns + extraExplosionBonus
\* Fault injection: a pass that forgets the points of the tiles a blast added.
MatchPointsNoBlast(removedCount, bombsSpawned, plusesSpawned, explosionAddedCount) ==
    removedCount * 10 + bombsSpawned * 20 + plusesSpawned * 30

MatchPoints(removedCount, bombsSpawned, plusesSpawned, explosionAddedCount) ==
    removedCount * 10 + bombsSpawned * 20 + plusesSpawned * 30 + explosionAddedCount * 10

\* The part of processMatches that runs before the removal animation.
CollectMatches(gr, gm, matches) ==
    Bind(FirstPass(gm,
                   [toRemove |-> <<>>, bombsToSpawn |-> <<>>, plusesToSpawn |-> <<>>,
                    bombsToExplode |-> <<>>, plusesToExplode |-> <<>>],
                   ComposeMatches(gm, matches)),
         LAMBDA first :
    Bind(InlineExpand(gr, gm,
                [toRemove |-> first.toRemove, explosionAdded |-> <<>>,
                 bombsToExplode |-> first.bombsToExplode,
                 plusesToExplode |-> first.plusesToExplode,
                 queueBombs |-> first.bombsToExplode,
                 queuePluses |-> first.plusesToExplode]),
         LAMBDA st :
       [toRemove |-> st.toRemove,
        initialRemoved |-> first.toRemove,
        explosionAdded |-> st.explosionAdded,
        bombsToSpawn |-> first.bombsToSpawn,
        plusesToSpawn |-> first.plusesToSpawn,
        bombsToExplode |-> st.bombsToExplode,
        plusesToExplode |-> st.plusesToExplode,
        points |-> MatchPoints(Len(st.toRemove), Len(first.bombsToSpawn),
                               Len(first.plusesToSpawn), Len(st.explosionAdded))]))

\* ----------------------------------------------- Game.processExplosions
\* Fault injection: a run of the engine that lets a reached special lie.
ExplosionVisitInert(gr, gm, st, cells) ==
    LET tiles == SelectSeq([i \in 1 .. Len(cells) |-> getGemAt(gr, cells[i][1], cells[i][2])],
                           LAMBDA g : g # 0)
    IN [st EXCEPT !.toRemove = AddAll(@, tiles)]

RECURSIVE ExplosionVisit(_, _, _, _)
\* The body run for each cell of a blast or line in processExplosions.
ExplosionVisit(gr, gm, st, cells) ==
    IF cells = <<>> THEN st
    ELSE LET g == getGemAt(gr, Head(cells)[1], Head(cells)[2])
         IN IF g # 0 /\ ~InSeq(g, st.toRemove)
            THEN Bind([st EXCEPT
                         !.toRemove = Append(@, g),
                         !.bombsQueue =
                             IF isBomb(gm, g) /\ g \notin st.bombsProcessed
                             THEN Append(@, [gem |-> g, radius |-> 1]) ELSE @,
                         !.plusQueue =
                             IF isPlus(gm, g) /\ g \notin st.plusesProcessed
                             THEN Append(@, g) ELSE @],
                      LAMBDA next : ExplosionVisit(gr, gm, next, Tail(cells)))
            ELSE ExplosionVisit(gr, gm, st, Tail(cells))

RECURSIVE ExplosionLoopPlusFirst(_, _, _)
\* Fault injection: a worklist that takes a pending plus before a pending bomb.
ExplosionLoopPlusFirst(gr, gm, st) ==
    IF st.plusQueue # <<>>
    THEN LET plus == Head(st.plusQueue)
             rest == [st EXCEPT !.plusQueue = Tail(@)]
         IN IF plus \in st.plusesProcessed
            THEN Bind(rest, LAMBDA next : ExplosionLoopPlusFirst(gr, gm, next))
            ELSE Bind(ExplosionVisit(gr, gm,
                        [rest EXCEPT !.plusesProcessed = @ \cup {plus},
                                     !.activated = Append(@, plus)],
                        CrossCells(gm[plus].gridY, gm[plus].gridX)),
                      LAMBDA next : ExplosionLoopPlusFirst(gr, gm, next))
    ELSE IF st.bombsQueue # <<>>
    THEN LET item == Head(st.bombsQueue)
             bomb == item.gem
             radius == IF item.radius = 0 THEN 1 ELSE item.radius
             rest == [st EXCEPT !.bombsQueue = Tail(@)]
         IN IF bomb \in st.bombsProcessed
            THEN Bind(rest, LAMBDA next : ExplosionLoopPlusFirst(gr, gm, next))
            ELSE Bind(ExplosionVisit(gr, gm,
                        [rest EXCEPT !.bombsProcessed = @ \cup {bomb},
                                     !.activated = Append(@, bomb)],
                        SquareCells(gm[bomb].gridY, gm[bomb].gridX, radius)),
                      LAMBDA next : ExplosionLoopPlusFirst(gr, gm, next))
    ELSE st

RECURSIVE ExplosionLoop(_, _, _)
\* The while loop of processExplosions.  "activated" is not in the code: it
\* records each special whose blast or lines were run, in order.
ExplosionLoop(gr, gm, st) ==
    IF st.bombsQueue # <<>>
    THEN LET item == Head(st.bombsQueue)
             bomb == item.gem
             radius == IF item.radius = 0 THEN 1 ELSE item.radius
             rest == [st EXCEPT !.bombsQueue = Tail(@)]
         IN IF bomb \in st.bombsProcessed
            THEN Bind(rest, LAMBDA next : ExplosionLoop(gr, gm, next))
            ELSE Bind(ExplosionVisit(gr, gm,
                        [rest EXCEPT !.bombsProcessed = @ \cup {bomb},
                                     !.activated = Append(@, bomb)],
                        SquareCells(gm[bomb].gridY, gm[bomb].gridX, radius)),
                      LAMBDA next : ExplosionLoop(gr, gm, next))
    ELSE IF st.plusQueue # <<>>
    THEN LET plus == Head(st.plusQueue)
             rest == [st EXCEPT !.plusQueue = Tail(@)]
         IN IF plus \in st.plusesProcessed
            THEN Bind(rest, LAMBDA next : ExplosionLoop(gr, gm, next))
            ELSE Bind(ExplosionVisit(gr, gm,
                        [rest EXCEPT !.plusesProcessed = @ \cup {plus},
                                     !.activated = Append(@, plus)],
                        CrossCells(gm[plus].gridY, gm[plus].gridX)),
                      LAMBDA next : ExplosionLoop(gr, gm, next))
    ELSE st

\* points = removedList.length * 20
\* Fault injection: an explosion that charges its points instead of adding them.
ExplosionPenalty(removedCount) == 0 - removedCount * 20

ExplosionPoints(removedCount) == removedCount * 20

\* The part of processExplosions that runs before the removal animation:
\* the removed list and the points.
CollectExplosions(gr, gm, seedBombs, seedPluses) ==
    Bind(ExplosionLoop(gr, gm,
                [toRemove |-> <<>>, bombsQueue |-> seedBombs, plusQueue |-> seedPluses,
                 bombsProcessed |-> {}, plusesProcessed |-> {}, activated |-> <<>>]),
         LAMBDA st :
       [removed |-> st.toRemove, points |-> ExplosionPoints(Len(st.toRemove)),
        activated |-> st.activated])

\* The part of explodePlusAt that runs before the removal animation.
CollectPlus(gr, gm, plusGem) ==
    LET cells == CrossCells(gm[plusGem].gridY, gm[plusGem].gridX)
        toExplode == SelectSeq([i \in 1 .. Len(cells) |->
                                   getGemAt(gr, cells[i][1], cells[i][2])],
                               LAMBDA g : g # 0)
    IN Bind(AddAll(<<>>, toExplode),
            LAMBDA unique : [removed |-> unique, points |-> Len(unique) * 20])

\* The part of clearBoard that runs before the removal animation.
CollectAll(gr) ==
    Bind(getAllGems(gr), LAMBDA all : [removed |-> all, points |-> Len(all) * 50])

\* -------------------------------------------------- Grid.initializeGrid
RECURSIVE InitFrom(_, _, _, _, _, _)
\* The loops of initializeGrid from (row, col) on.  draw[cell] is the last
\* value of "type" for the cell, the one it is created with; exhausted tells
\* whether some cell was created with a type for which wouldCreateMatch still
\* held, which the loop allows only after 10 redraws.
InitFrom(gr, gm, exhausted, draw, row, col) ==
    IF row >= Rows THEN [grid |-> gr, gems |-> gm, exhausted |-> exhausted]
    ELSE IF col >= Cols THEN InitFrom(gr, gm, exhausted, draw, row + 1, 0)
    ELSE LET type == draw[<<row, col>>]
         IN Bind([c |-> createGemAt(gr, gm, row, col, type, "none"),
                  exhausted |-> exhausted \/ wouldCreateMatch(gr, gm, row, col, type)],
                 LAMBDA n : InitFrom(n.c.grid, n.c.gems, n.exhausted, draw, row, col + 1))

\* Grid.initializeGrid
initializeGrid(draw) == InitFrom(EmptyGrid, <<>>, FALSE, draw, 0, 0)

\* The results of getRandomGemType that a cell's loop may see, call after
\* call: a type that comes up 0, 1 or 10 times, then another one ever after.
DrawStreams ==
    {[i \in 1 .. (MaxAttempts + 2) |-> IF i <= k THEN a ELSE b] :
        k \in {0, 1, MaxAttempts}, a \in Types, b \in Types}

RECURSIVE RedrawExtra(_, _, _, _, _, _)
\* Fault injection: a loop that allows one redraw more.
RedrawExtra(gr, gm, row, col, stream, attempts) ==
    IF wouldCreateMatch(gr, gm, row, col, stream[attempts + 1]) /\ attempts <= MaxAttempts
    THEN RedrawExtra(gr, gm, row, col, stream, attempts + 1)
    ELSE [type |-> stream[attempts + 1], attempts |-> attempts]

RECURSIVE Redraw(_, _, _, _, _, _)
\* The first draw and the while loop of a cell: stream[attempts + 1] is the
\* value of "type" after that many redraws.
Redraw(gr, gm, row, col, stream, attempts) ==
    IF wouldCreateMatch(gr, gm, row, col, stream[attempts + 1]) /\ attempts < MaxAttempts
    THEN Redraw(gr, gm, row, col, stream, attempts + 1)
    ELSE [type |-> stream[attempts + 1], attempts |-> attempts]

RECURSIVE DrawnFrom(_, _, _, _, _, _)
\* The loops of initializeGrid from (row, col) on, each cell with its own
\* stream of draws.  "draws" is not in the code: it counts, cell after cell,
\* the calls of getRandomGemType.
DrawnFrom(gr, gm, draws, streams, row, col) ==
    IF row >= Rows THEN [grid |-> gr, gems |-> gm, draws |-> draws]
    ELSE IF col >= Cols THEN DrawnFrom(gr, gm, draws, streams, row + 1, 0)
    ELSE Bind(Redraw(gr, gm, row, col, streams[<<row, col>>], 0), LAMBDA d :
         Bind(createGemAt(gr, gm, row, col, d.type, "none"), LAMBDA c :
              DrawnFrom(c.grid, c.gems, Append(draws, d.attempts + 1), streams, row, col + 1)))

\* ------------------------------------------------------- async handlers
ProcIds == 1 .. MaxProcs

\* A handler's locals.  "before" is not in the code: it records the board,
\* score and moves at the time performSwap was called.
NoProc ==
    [pc |-> "none", origin |-> "none", gem1 |-> 0, gem2 |-> 0,
     before |-> [grid |-> <<>>, score |-> 0, moves |-> 0],
     prevInteractive |-> TRUE, list |-> <<>>,
     bombsToSpawn |-> <<>>, plusesToSpawn |-> <<>>,
     bombsToExplode |-> <<>>, plusesToExplode |-> <<>>, ret |-> "none"]

\* The fields of Game and Grid a handler reads and writes.
World ==
    [grid |-> grid, gems |-> gems, state |-> state, score |-> score, moves |-> moves,
     selectedGem |-> selectedGem, draggingGem |-> draggingGem,
     interactive |-> interactive, handlers |-> handlers]

\* The place of g in the sequence live, 0 when it is not there.
IndexOf(live, g) ==
    IF InSeq(g, live) THEN CHOOSE i \in 1 .. Len(live) : live[i] = g ELSE 0

RECURSIVE Renumber(_, _)
Renumber(live, list) ==
    IF list = <<>> THEN <<>>
    ELSE <<IndexOf(live, Head(list))>> \o Renumber(live, Tail(list))

RECURSIVE Pick(_, _)
Pick(gm, live) ==
    IF live = <<>> THEN <<>> ELSE <<gm[Head(live)]>> \o Pick(gm, Tail(live))

\* The same state with the removed gems forgotten, the gems on the board
\* renumbered in cell order and score held at ScoreCap.  No handler reads a
\* gem's number or the score to decide what to do, so a run of the program
\* and its image under this map take the same steps; the image has finitely
\* many states, which lets a cascade that never ends show as a cycle.
Recycle(W, L) ==
    Bind(getAllGems(W.grid), LAMBDA live :
        [W |-> [W EXCEPT
                  !.grid = [cell \in DOMAIN W.grid |-> IndexOf(live, W.grid[cell])],
                  !.gems = Pick(W.gems, live),
                  !.handlers = {IndexOf(live, g) : g \in W.handlers \cap SeqToSet(live)},
                  !.score = IF @ > ScoreCap THEN ScoreCap ELSE @],
         L |-> [L EXCEPT
                  !.gem1 = IndexOf(live, @), !.gem2 = IndexOf(live, @),
                  !.list = Renumber(live, @),
                  !.bombsToExplode = Renumber(live, @),
                  !.plusesToExplode = Renumber(live, @)]])

\* A handler reaches an awaited animation (or returns): the fields it wrote
\* become the new state and the handler waits at L.pc.
Commit(p, W0, L0) ==
    \E A \in {IF config.recycle THEN Recycle(W0, L0) ELSE [W |-> W0, L |-> L0]} :
        /\ Len(A.W.gems) <= config.maxGems
        /\ grid' = A.W.grid
        /\ gems' = A.W.gems
        /\ state' = A.W.state
        /\ score' = A.W.score
        /\ moves' = A.W.moves
        /\ selectedGem' = A.W.selectedGem
        /\ draggingGem' = A.W.draggingGem
        /\ interactive' = A.W.interactive
        /\ handlers' = A.W.handlers
        /\ procs' = [procs EXCEPT ![p] = A.L]

\* attachGemHandlers
attachGemHandlers(W) == [W EXCEPT !.handlers = @ \cup SeqToSet(getAllGems(W.grid))]

\* The finally block of performSwap, then the listener cleanup of the drag
\* handler that awaited the swap.
Finish(p, W, L) ==
    LET W1 == [W EXCEPT !.interactive = L.prevInteractive, !.state = "IDLE"]
        W2 == IF L.origin \in {"move", "up"} THEN [W1 EXCEPT !.draggingGem = 0] ELSE W1
    IN Commit(p, W2, NoProc)

\* processMatches up to the removal animation.
StartMatchPass(p, W, L, matches) ==
    \E c \in {CollectMatches(W.grid, W.gems, matches)} :
       Commit(p,
              [W EXCEPT !.state = "MATCHING", !.score = @ + c.points],
              [L EXCEPT !.pc = "matchAnim", !.list = c.toRemove,
                        !.bombsToSpawn = c.bombsToSpawn,
                        !.plusesToSpawn = c.plusesToSpawn,
                        !.bombsToExplode = c.bombsToExplode,
                        !.plusesToExplode = c.plusesToExplode])

\* After applyGravityAndFill: the cascade check, in performSwap and in
\* processMatches alike.
AfterFill(p, W, L) ==
    \E cascadeMatches \in {findMatches(W.grid, W.gems)} :
       IF Len(cascadeMatches) > 0 THEN StartMatchPass(p, W, L, cascadeMatches)
       ELSE Finish(p, W, L)

\* applyGravityAndFill from fillEmpty on.
FillStep(p, W, L) ==
    \E draw \in [EmptyCells(W.grid) -> Types] :
      \E f \in {fillEmpty(W.grid, W.gems, draw)} :
        LET W1 == [W EXCEPT !.grid = f.grid, !.gems = f.gems]
        IN IF Len(f.newGems) > 0
           THEN Commit(p, W1, [L EXCEPT !.pc = "dropAnim", !.list = <<>>])
           ELSE AfterFill(p, W1, L)

\* applyGravityAndFill up to the first animation it awaits.
GravityAndFill(p, W, L) ==
    \E a \in {applyGravity(W.grid, W.gems)} :
    LET W1 == [W EXCEPT !.state = "FILLING", !.grid = a.grid, !.gems = a.gems]
    IN IF a.hasMoved
       THEN Commit(p, W1, [L EXCEPT !.pc = "fallAnim", !.list = <<>>])
       ELSE FillStep(p, W1, L)

\* explodePlusAt up to the removal animation, then applyGravityAndFill.
ExplodePlus(p, W, L, plusGem) ==
    \E c \in {CollectPlus(W.grid, W.gems, plusGem)} :
       IF Len(c.removed) = 0 THEN GravityAndFill(p, W, L)
       ELSE Commit(p, [W EXCEPT !.score = @ + c.points],
                   [L EXCEPT !.pc = "plusAnim", !.list = c.removed])

\* processExplosions up to the removal animation, followed by applyGravityAndFill.
ExplodeThenFill(p, W, L, seedBombs, seedPluses) ==
    \E c \in {CollectExplosions(W.grid, W.gems, seedBombs, seedPluses)} :
       IF Len(c.removed) = 0 THEN GravityAndFill(p, W, L)
       ELSE Commit(p, [W EXCEPT !.score = @ + c.points],
                   [L EXCEPT !.pc = "explAnim", !.list = c.removed, !.ret = "fill"])

\* What performSwap or processMatches does after a processExplosions call returns.
Continue(p, W, L, ret) ==
    IF ret = "plus"
    THEN ExplodePlus(p, W, L, IF isPlus(W.gems, L.gem1) THEN L.gem1 ELSE L.gem2)
    ELSE IF ret = "bomb2"
    THEN ExplodeThenFill(p, W, L, <<[gem |-> L.gem2, radius |-> 2]>>, <<>>)
    ELSE GravityAndFill(p, W, L)

\* explodeAt(bombGem, radius) in performSwap, followed by the rest of the branch.
\* Fault injection: a swapped bomb whose detonation costs a move.
ExplodeAtCharged(p, W, L, bombGem, radius, ret) ==
    \E c \in {CollectExplosions(W.grid, W.gems,
                                  <<[gem |-> bombGem, radius |-> radius]>>, <<>>)} :
       IF Len(c.removed) = 0 THEN Continue(p, W, L, ret)
       ELSE Commit(p, [W EXCEPT !.score = @ + c.points, !.moves = @ - 1],
                   [L EXCEPT !.pc = "explAnim", !.list = c.removed, !.ret = ret])

ExplodeAt(p, W, L, bombGem, radius, ret) ==
    \E c \in {CollectExplosions(W.grid, W.gems,
                                  <<[gem |-> bombGem, radius |-> radius]>>, <<>>)} :
       IF Len(c.removed) = 0 THEN Continue(p, W, L, ret)
       ELSE Commit(p, [W EXCEPT !.score = @ + c.points],
                   [L EXCEPT !.pc = "explAnim", !.list = c.removed, !.ret = ret])

\* clearBoard up to the removal animation.
ClearBoard(p, W, L) ==
    \E c \in {CollectAll(W.grid)} :
       IF Len(c.removed) = 0 THEN GravityAndFill(p, W, L)
       ELSE Commit(p, [W EXCEPT !.score = @ + c.points],
                   [L EXCEPT !.pc = "clearAnim", !.list = c.removed])

\* Fault injection: a matching swap that costs two moves.
ConsumeTwoMoves(m) == m - 2

\* this.moves--
ConsumeMove(m) == m - 1

\* performSwap from the end of the swap animation to the next animation.
\* Fault injection: a swap that sets a lone bomb off when no run is formed.
AfterSwapAnimEager(p, W0, L) ==
    \E s \in {swapGems(W0.grid, W0.gems, L.gem1, L.gem2)} :
    \E matches \in {findMatches(s.grid, s.gems)} :
    LET W == [W0 EXCEPT !.grid = s.grid, !.gems = s.gems]
        gem1IsBomb == isBomb(W.gems, L.gem1)
        gem2IsBomb == isBomb(W.gems, L.gem2)
        gem1IsPlus == isPlus(W.gems, L.gem1)
        gem2IsPlus == isPlus(W.gems, L.gem2)
    IN IF gem1IsPlus /\ gem2IsPlus THEN ClearBoard(p, W, L)
       ELSE IF (gem1IsBomb /\ gem2IsPlus) \/ (gem2IsBomb /\ gem1IsPlus)
       THEN ExplodeAt(p, W, L, IF gem1IsBomb THEN L.gem1 ELSE L.gem2, 1, "plus")
       ELSE IF gem1IsBomb /\ gem2IsBomb
       THEN ExplodeAt(p, W, L, L.gem1, 2, "bomb2")
       ELSE IF Len(matches) > 0
       THEN StartMatchPass(p, [W EXCEPT !.moves = ConsumeMove(@)], L, matches)
       ELSE IF gem1IsBomb \/ gem2IsBomb
       THEN ExplodeAt(p, W, L, IF gem1IsBomb THEN L.gem1 ELSE L.gem2, 1, "fill")
       ELSE Commit(p, W, [L EXCEPT !.pc = "backAnim"])

AfterSwapAnim(p, W0, L) ==
    \E s \in {swapGems(W0.grid, W0.gems, L.gem1, L.gem2)} :
    \E matches \in {findMatches(s.grid, s.gems)} :
    LET W == [W0 EXCEPT !.grid = s.grid, !.gems = s.gems]
        gem1IsBomb == isBomb(W.gems, L.gem1)
        gem2IsBomb == isBomb(W.gems, L.gem2)
        gem1IsPlus == isPlus(W.gems, L.gem1)
        gem2IsPlus == isPlus(W.gems, L.gem2)
    IN IF gem1IsPlus /\ gem2IsPlus THEN ClearBoard(p, W, L)
       ELSE IF (gem1IsBomb /\ gem2IsPlus) \/ (gem2IsBomb /\ gem1IsPlus)
       THEN ExplodeAt(p, W, L, IF gem1IsBomb THEN L.gem1 ELSE L.gem2, 1, "plus")
       ELSE IF gem1IsBomb /\ gem2IsBomb
       THEN ExplodeAt(p, W, L, L.gem1, 2, "bomb2")
       ELSE IF Len(matches) > 0
       THEN StartMatchPass(p, [W EXCEPT !.moves = ConsumeMove(@)], L, matches)
       ELSE Commit(p, W, [L EXCEPT !.pc = "backAnim"])

RECURSIVE SpawnAll(_, _, _, _)
\* The two spawn loops: createGemAt for each recorded position.
SpawnAll(gr, gm, requests, special) ==
    IF requests = <<>> THEN [grid |-> gr, gems |-> gm, spawned |-> <<>>]
    ELSE LET b == Head(requests)
         IN Bind(createGemAt(gr, gm, b.row, b.col, b.type, special),
                 LAMBDA c : [SpawnAll(c.grid, c.gems, Tail(requests), special)
                                EXCEPT !.spawned = <<Len(gm) + 1>> \o @])

\* Fault injection: a check that looks at the queued bombs only.
TriggeredByBombs(gm, sp, bombsToExplode, plusesToExplode) ==
    \E i \in 1 .. Len(bombsToExplode) :
       /\ Abs(gm[sp].gridX - gm[bombsToExplode[i]].gridX) <= 1
       /\ Abs(gm[sp].gridY - gm[bombsToExplode[i]].gridY) <= 1

\* A newly spawned special lies in the area of a bomb or plus queued in the pass.
Triggered(gm, sp, bombsToExplode, plusesToExplode) ==
    \/ \E i \in 1 .. Len(bombsToExplode) :
          /\ Abs(gm[sp].gridX - gm[bombsToExplode[i]].gridX) <= 1
          /\ Abs(gm[sp].gridY - gm[bombsToExplode[i]].gridY) <= 1
    \/ \E i \in 1 .. Len(plusesToExplode) :
          \/ gm[sp].gridY = gm[plusesToExplode[i]].gridY
          \/ gm[sp].gridX = gm[plusesToExplode[i]].gridX

\* processMatches from the end of the removal animation to the next animation.
AfterMatchAnim(p, W0, L) ==
    \E r \in {removeGems(W0.grid, W0.gems, L.list)} :
    \E sb \in {SpawnAll(r.grid, r.gems, L.bombsToSpawn, "bomb")} :
    \E sp \in {SpawnAll(sb.grid, sb.gems, L.plusesToSpawn, "plus")} :
    \E W \in {IF Len(sb.spawned) > 0 \/ Len(sp.spawned) > 0
              THEN attachGemHandlers([W0 EXCEPT !.grid = sp.grid, !.gems = sp.gems])
              ELSE [W0 EXCEPT !.grid = sp.grid, !.gems = sp.gems]} :
    LET triggeredSpawnBombs ==
            SelectSeq(sb.spawned,
                      LAMBDA g : Triggered(W.gems, g, L.bombsToExplode, L.plusesToExplode))
        triggeredSpawnPluses ==
            SelectSeq(sp.spawned,
                      LAMBDA g : Triggered(W.gems, g, L.bombsToExplode, L.plusesToExplode))
        seedBombs == [i \in 1 .. Len(triggeredSpawnBombs) |->
                         [gem |-> triggeredSpawnBombs[i], radius |-> 1]]
        L1 == [L EXCEPT !.list = <<>>, !.bombsToSpawn = <<>>, !.plusesToSpawn = <<>>,
                        !.bombsToExplode = <<>>, !.plusesToExplode = <<>>]
    IN IF Len(triggeredSpawnBombs) > 0 \/ Len(triggeredSpawnPluses) > 0
       THEN ExplodeThenFill(p, W, L1, seedBombs, triggeredSpawnPluses)
       ELSE GravityAndFill(p, W, L1)

\* performSwap up to the swap animation.
PerformSwap(W, origin, gem1, gem2) ==
    /\ swaps < MaxSwaps
    /\ swaps' = swaps + 1
    /\ UNCHANGED config
    /\ \E p \in ProcIds :
          /\ procs[p].pc = "none"
          /\ \A q \in ProcIds : q < p => procs[q].pc # "none"
          /\ Commit(p,
                    [W EXCEPT !.state = "SWAPPING", !.selectedGem = 0,
                              !.interactive = FALSE],
                    [NoProc EXCEPT !.pc = "swapAnim", !.origin = origin,
                                   !.gem1 = gem1, !.gem2 = gem2,
                                   !.before = [grid |-> W.grid, score |-> W.score,
                                               moves |-> W.moves],
                                   !.prevInteractive = W.interactive])

\* ---------------------------------------------------------------- actions
\* A board at rest, written row by row; each tile is <<type, special>>.
N(t) == <<t, "none">>
B(t) == <<t, "bomb">>
P(t) == <<t, "plus">>

InitBoards ==
    { << <<N(0), N(1), N(0)>>,
         <<N(0), N(0), N(1)>> >>,
      << <<B(0), B(1), P(0)>> >>,
      << <<B(0), B(1), N(0)>> >>,
      << <<P(0), P(1), N(0)>> >>,
      << <<N(0), N(0), N(1), B(0)>> >> }

RECURSIVE PlaceFrom(_, _, _, _, _)
\* The tiles of a board created cell by cell with createGemAt.
PlaceFrom(board, gr, gm, row, col) ==
    IF row >= Len(board) THEN [grid |-> gr, gems |-> gm]
    ELSE IF col >= Len(board[1]) THEN PlaceFrom(board, gr, gm, row + 1, 0)
    ELSE LET t == board[row + 1][col + 1]
         IN Bind([grid |-> [gr EXCEPT ![<<row, col>>] = Len(gm) + 1],
                  gems |-> Append(gm, Gem(t[1], col, row, t[2]))],
                 LAMBDA n : PlaceFrom(board, n.grid, n.gems, row, col + 1))

\* A session at rest: a full board without a run, no handler pending.
Init ==
    \E board \in InitBoards :
        LET cells == (0 .. (Len(board) - 1)) \X (0 .. (Len(board[1]) - 1))
            b == PlaceFrom(board, [cell \in cells |-> 0], <<>>, 0, 0)
        IN /\ config = [rows |-> Len(board), cols |-> Len(board[1]), recycle |-> FALSE,
                        maxGems |-> Len(board) * Len(board[1]) + MaxNewGems]
           /\ gems = b.gems
           /\ grid = b.grid
           /\ handlers = DOMAIN b.gems
           /\ state = "IDLE"
           /\ score = 0
           /\ moves = StartMoves
           /\ selectedGem = 0
           /\ draggingGem = 0
           /\ interactive = TRUE
           /\ procs = [p \in 1 .. MaxProcs |-> NoProc]
           /\ pointerDown = FALSE
           /\ swaps = 0

\* A gem that can receive pointerdown and pointertap.
Clickable(g) ==
    /\ interactive
    /\ g \in handlers
    /\ ~gems[g].isMatched

\* The pointerdown handler of a gem, with startDragging.  One pointer and one
\* gesture at a time: the pointer goes down only when it is up and no drag
\* and no selection is pending.
PointerDown(g) ==
    /\ Clickable(g)
    /\ ~pointerDown
    /\ draggingGem = 0
    /\ state = "IDLE"
    /\ draggingGem' = g
    /\ pointerDown' = TRUE
    /\ UNCHANGED <<gems, grid, state, score, moves, selectedGem, interactive,
                   handlers, procs, config, swaps>>

\* The pointertap handler of a gem, with handleGemClick.
PointerTap(g) ==
    /\ Clickable(g)
    /\ ~pointerDown
    /\ state = "IDLE"
    /\ IF selectedGem = 0
       THEN /\ selectedGem' = g
            /\ UNCHANGED <<config, gems, grid, state, score, moves, draggingGem,
                           interactive, handlers, procs, swaps>>
       ELSE IF areAdjacent(gems, selectedGem, g)
       THEN PerformSwap(World, "tap", selectedGem, g)
       ELSE /\ selectedGem' = g
            /\ UNCHANGED <<config, gems, grid, state, score, moves, draggingGem,
                           interactive, handlers, procs, swaps>>
    /\ UNCHANGED pointerDown

Directions == {<<0, 1>>, <<0, -1>>, <<1, 0>>, <<-1, 0>>}

\* onPointerMove once the drag has crossed the threshold in direction dir
\* (dir[1] is dirY, dir[2] is dirX): the auto-swap.
PointerMove(dir) ==
    /\ draggingGem # 0
    /\ pointerDown
    /\ UNCHANGED pointerDown
    /\ LET target == getGemAt(grid, gems[draggingGem].gridY + dir[1],
                              gems[draggingGem].gridX + dir[2])
       IN /\ target # 0
          /\ state = "IDLE"
          /\ PerformSwap(World, "move", draggingGem, target)

\* The pointer goes up over the gem target (0 when there is none).  With a
\* drag in progress onPointerUp runs: a swap when target is adjacent to the
\* dragged gem, else the animation back home.  Without one the listeners are
\* gone and nothing runs.
PointerUp(target) ==
    /\ pointerDown
    /\ pointerDown' = FALSE
    /\ target # 0 => \E cell \in Cells : grid[cell] = target
    /\ IF draggingGem = 0
       THEN /\ target = 0
            /\ UNCHANGED <<config, gems, grid, state, score, moves, selectedGem,
                           draggingGem, interactive, handlers, procs, swaps>>
       ELSE IF target # 0 /\ areAdjacent(gems, draggingGem, target)
       THEN PerformSwap(World, "up", draggingGem, target)
       ELSE /\ \E p \in ProcIds :
                 /\ procs[p].pc = "none"
                 /\ \A q \in ProcIds : q < p => procs[q].pc # "none"
                 /\ Commit(p, World, [NoProc EXCEPT !.pc = "homeAnim", !.origin = "up"])
            /\ UNCHANGED <<config, swaps>>

\* The animation back home is over: onPointerUp removes the listeners.
HomeAnimDone(p) ==
    /\ procs[p].pc = "homeAnim"
    /\ Commit(p, [World EXCEPT !.draggingGem = 0], NoProc)
    /\ UNCHANGED <<config, pointerDown, swaps>>

SwapAnimDone(p) ==
    /\ procs[p].pc = "swapAnim"
    /\ AfterSwapAnim(p, World, procs[p])
    /\ UNCHANGED <<config, pointerDown, swaps>>

\* The swap-back animation is over: restore the logical grid and return.
BackAnimDone(p) ==
    /\ procs[p].pc = "backAnim"
    /\ \E s \in {swapGems(grid, gems, procs[p].gem1, procs[p].gem2)} :
          Finish(p, [World EXCEPT !.grid = s.grid, !.gems = s.gems], procs[p])
    /\ UNCHANGED <<config, pointerDown, swaps>>

MatchAnimDone(p) ==
    /\ procs[p].pc = "matchAnim"
    /\ AfterMatchAnim(p, World, procs[p])
    /\ UNCHANGED <<config, pointerDown, swaps>>

\* The removal animation of processExplosions is over.
ExplAnimDone(p) ==
    /\ procs[p].pc = "explAnim"
    /\ \E r \in {removeGems(grid, gems, procs[p].list)} :
          Continue(p, [World EXCEPT !.grid = r.grid, !.gems = r.gems],
                   [procs[p] EXCEPT !.list = <<>>, !.ret = "none"], procs[p].ret)
    /\ UNCHANGED <<config, pointerDown, swaps>>

\* The removal animation of explodePlusAt or of clearBoard is over.
RemoveAnimDone(p) ==
    /\ procs[p].pc \in {"plusAnim", "clearAnim"}
    /\ \E r \in {removeGems(grid, gems, procs[p].list)} :
          GravityAndFill(p, [World EXCEPT !.grid = r.grid, !.gems = r.gems],
                         [procs[p] EXCEPT !.list = <<>>])
    /\ UNCHANGED <<config, pointerDown, swaps>>

\* The fall animation of applyGravityAndFill is over.
FallAnimDone(p) ==
    /\ procs[p].pc = "fallAnim"
    /\ FillStep(p, World, procs[p])
    /\ UNCHANGED <<config, pointerDown, swaps>>

\* The drop animation of the new gems is over.
DropAnimDone(p) ==
    /\ procs[p].pc = "dropAnim"
    /\ AfterFill(p, attachGemHandlers(World), procs[p])
    /\ UNCHANGED <<config, pointerDown, swaps>>

Next ==
    \/ \E g \in DOMAIN gems : PointerDown(g)
    \/ \E g \in DOMAIN gems : PointerTap(g)
    \/ \E dir \in Directions : PointerMove(dir)
    \/ \E target \in {0} \cup DOMAIN gems : PointerUp(target)
    \/ \E p \in ProcIds : HomeAnimDone(p)
    \/ \E p \in ProcIds : SwapAnimDone(p)
    \/ \E p \in ProcIds : BackAnimDone(p)
    \/ \E p \in ProcIds : MatchAnimDone(p)
    \/ \E p \in ProcIds : ExplAnimDone(p)
    \/ \E p \in ProcIds : RemoveAnimDone(p)
    \/ \E p \in ProcIds : FallAnimDone(p)
    \/ \E p \in ProcIds : DropAnimDone(p)

Spec == Init /\ [][Next]_vars

\* ------------------------------------------- a session with two pluses
\* A session at rest on one row: two pluses and a plain gem.
ClearInit ==
    LET board == << <<P(0), P(1), N(0)>> >>
        b == PlaceFrom(board, [cell \in {0} \X (0 .. 2) |-> 0], <<>>, 0, 0)
    IN /\ config = [rows |-> 1, cols |-> 3, recycle |-> FALSE, maxGems |-> 3 + ClearNewGems]
       /\ gems = b.gems
       /\ grid = b.grid
       /\ handlers = DOMAIN b.gems
       /\ state = "IDLE"
       /\ score = 0
       /\ moves = StartMoves
       /\ selectedGem = 0
       /\ draggingGem = 0
       /\ interactive = TRUE
       /\ procs = [p \in 1 .. MaxProcs |-> NoProc]
       /\ pointerDown = FALSE
       /\ swaps = 0

\* The steps of a session on one row without bombs: nothing falls and no
\* run of processExplosions removes a tile.
ClearNext ==
    \/ \E g \in DOMAIN gems : PointerDown(g)
    \/ \E g \in DOMAIN gems : PointerTap(g)
    \/ \E dir \in Directions : PointerMove(dir)
    \/ \E target \in {0} \cup DOMAIN gems : PointerUp(target)
    \/ \E p \in ProcIds : HomeAnimDone(p)
    \/ \E p \in ProcIds : SwapAnimDone(p)
    \/ \E p \in ProcIds : BackAnimDone(p)
    \/ \E p \in ProcIds : MatchAnimDone(p)
    \/ \E p \in ProcIds : RemoveAnimDone(p)
    \/ \E p \in ProcIds : DropAnimDone(p)

ClearSpec == ClearInit /\ [][ClearNext]_vars

\* ------------------------------------------------------ one match pass
\* The shapes and the numbers of special gems of the boards tried.
MatchShapes ==
    {[rows |-> BoxRows, cols |-> BoxCols, specials |-> BoxSpecials],
     [rows |-> 1, cols |-> LineCols, specials |-> LineSpecials]}

\* The board after some refill, when the drop animation of the new gems is
\* about to end: any full board with a run, some of its gems bombs or pluses
\* spawned by earlier passes.
MatchInit ==
    \E shape \in MatchShapes :
        LET cells == (0 .. (shape.rows - 1)) \X (0 .. (shape.cols - 1))
        IN \E types \in [cells -> Types] :
           \E where \in {w \in SUBSET cells : Cardinality(w) <= shape.specials} :
           \E kind \in [where -> {"bomb", "plus"}] :
              LET board == [r \in 1 .. shape.rows |-> [c \in 1 .. shape.cols |->
                               <<types[<<r - 1, c - 1>>],
                                 IF <<r - 1, c - 1>> \in where
                                 THEN kind[<<r - 1, c - 1>>] ELSE "none">>]]
                  b == PlaceFrom(board, [cell \in cells |-> 0], <<>>, 0, 0)
              IN /\ config = [rows |-> shape.rows, cols |-> shape.cols, recycle |-> FALSE,
                              maxGems |-> shape.rows * shape.cols + MaxNewGems]
                 /\ gems = b.gems
                 /\ grid = b.grid
                 /\ handlers = {}
                 /\ state = "FILLING"
                 /\ score = 0
                 /\ moves = StartMoves - 1
                 /\ selectedGem = 0
                 /\ draggingGem = 0
                 /\ interactive = FALSE
                 /\ procs = [p \in 1 .. MaxProcs |->
                                IF p = 1 THEN [NoProc EXCEPT !.pc = "dropAnim", !.origin = "tap"]
                                ELSE NoProc]
                 /\ pointerDown = FALSE
                 /\ swaps = 1

MatchNext ==
    \/ \E p \in ProcIds : DropAnimDone(p)
    \/ \E p \in ProcIds : MatchAnimDone(p)
    \/ \E p \in ProcIds : ExplAnimDone(p)
    \/ \E p \in ProcIds : FallAnimDone(p)

MatchSpec == MatchInit /\ [][MatchNext]_vars

\* ---------------------------------------------------- the cascade loop
\* A swap has just been accepted on a board at rest: any full board of
\* CascadeRows x CascadeCols plain gems without a run, any two adjacent gems.
\* The state is kept finite (Recycle).
CascadeInit ==
    LET cells == (0 .. (CascadeRows - 1)) \X (0 .. (CascadeCols - 1))
    IN \E types \in [cells -> Types] :
       \E g1, g2 \in 1 .. (CascadeRows * CascadeCols) :
          LET board == [r \in 1 .. CascadeRows |-> [c \in 1 .. CascadeCols |->
                           N(types[<<r - 1, c - 1>>])]]
              b == PlaceFrom(board, [cell \in cells |-> 0], <<>>, 0, 0)
          IN /\ config = [rows |-> CascadeRows, cols |-> CascadeCols, recycle |-> TRUE,
                          maxGems |-> CascadeRows * CascadeCols + MaxNewGems]
             /\ gems = b.gems
             /\ grid = b.grid
             /\ Len(findMatches(grid, gems)) = 0
             /\ areAdjacent(gems, g1, g2)
             /\ handlers = DOMAIN b.gems
             /\ state = "SWAPPING"
             /\ score = 0
             /\ moves = StartMoves
             /\ selectedGem = 0
             /\ draggingGem = 0
             /\ interactive = FALSE
             /\ procs = [p \in 1 .. MaxProcs |->
                            IF p = 1
                            THEN [NoProc EXCEPT !.pc = "swapAnim", !.origin = "tap",
                                                !.gem1 = g1, !.gem2 = g2]
                            ELSE NoProc]
             /\ pointerDown = FALSE
             /\ swaps = 1

\* The steps of performSwap on plain gems: every animation ends.
CascadeNext ==
    \/ \E p \in ProcIds : SwapAnimDone(p)
    \/ \E p \in ProcIds : BackAnimDone(p)
    \/ \E p \in ProcIds : MatchAnimDone(p)
    \/ \E p \in ProcIds : FallAnimDone(p)
    \/ \E p \in ProcIds : DropAnimDone(p)

\* Every animation that is running completes.
CascadeSpec == CascadeInit /\ [][CascadeNext]_vars /\ WF_vars(CascadeNext)

\* ------------------------------------------- a swap of two special gems
SpecialShapes ==
    {[rows |-> SpecialRows, cols |-> SpecialCols], [rows |-> 1, cols |-> SpecialLine]}

\* A swap of two adjacent special gems has just been accepted on a board at
\* rest: the types alternate, so the board has no run; any two adjacent cells
\* hold the swapped bombs or pluses, and some other cells hold a special gem.
SpecialInit ==
    \E shape \in SpecialShapes :
        LET cells == (0 .. (shape.rows - 1)) \X (0 .. (shape.cols - 1))
            id(cell) == cell[1] * shape.cols + cell[2] + 1
        IN \E c1, c2 \in cells :
           \E kind1, kind2 \in {"bomb", "plus"} :
           \E where \in {w \in SUBSET (cells \ {c1, c2}) : Cardinality(w) <= SpecialOthers} :
           \E kind \in [where -> {"bomb", "plus"}] :
              LET board == [r \in 1 .. shape.rows |-> [c \in 1 .. shape.cols |->
                               <<(r + c) % GemTypes,
                                 IF <<r - 1, c - 1>> = c1 THEN kind1
                                 ELSE IF <<r - 1, c - 1>> = c2 THEN kind2
                                 ELSE IF <<r - 1, c - 1>> \in where
                                 THEN kind[<<r - 1, c - 1>>] ELSE "none">>]]
                  b == PlaceFrom(board, [cell \in cells |-> 0], <<>>, 0, 0)
              IN /\ Abs(c1[1] - c2[1]) + Abs(c1[2] - c2[2]) = 1
                 /\ config = [rows |-> shape.rows, cols |-> shape.cols, recycle |-> FALSE,
                              maxGems |-> shape.rows * shape.cols + SpecialNewGems]
                 /\ gems = b.gems
                 /\ grid = b.grid
                 /\ handlers = DOMAIN b.gems
                 /\ state = "SWAPPING"
                 /\ score = 0
                 /\ moves = StartMoves
                 /\ selectedGem = 0
                 /\ draggingGem = 0
                 /\ interactive = FALSE
                 /\ procs = [p \in 1 .. MaxProcs |->
                                IF p = 1
                                THEN [NoProc EXCEPT !.pc = "swapAnim", !.origin = "tap",
                                                    !.gem1 = id(c1), !.gem2 = id(c2),
                                                    !.before = [grid |-> b.grid, score |-> 0,
                                                                moves |-> StartMoves]]
                                ELSE NoProc]
                 /\ pointerDown = FALSE
                 /\ swaps = 1

\* The steps of performSwap from the end of the swap animation on.
SpecialNext ==
    \/ \E p \in ProcIds : SwapAnimDone(p)
    \/ \E p \in ProcIds : ExplAnimDone(p)
    \/ \E p \in ProcIds : RemoveAnimDone(p)
    \/ \E p \in ProcIds : FallAnimDone(p)
    \/ \E p \in ProcIds : DropAnimDone(p)
    \/ \E p \in ProcIds : MatchAnimDone(p)

SpecialSpec == SpecialInit /\ [][SpecialNext]_vars

\* ------------------------------------------------------ a straight run
\* The board after some refill, when the drop animation of the new gems is
\* about to end: any row and any column of RunLen plain gems.
RunInit ==
    \E shape \in {[rows |-> 1, cols |-> RunLen], [rows |-> RunLen, cols |-> 1]} :
        LET cells == (0 .. (shape.rows - 1)) \X (0 .. (shape.cols - 1))
        IN \E types \in [cells -> Types] :
              LET board == [r \in 1 .. shape.rows |-> [c \in 1 .. shape.cols |->
                               N(types[<<r - 1, c - 1>>])]]
                  b == PlaceFrom(board, [cell \in cells |-> 0], <<>>, 0, 0)
              IN /\ config = [rows |-> shape.rows, cols |-> shape.cols, recycle |-> FALSE,
                              maxGems |-> 2 * RunLen + 1]
                 /\ gems = b.gems
                 /\ grid = b.grid
                 /\ handlers = {}
                 /\ state = "FILLING"
                 /\ score = 0
                 /\ moves = StartMoves - 1
                 /\ selectedGem = 0
                 /\ draggingGem = 0
                 /\ interactive = FALSE
                 /\ procs = [p \in 1 .. MaxProcs |->
                                IF p = 1 THEN [NoProc EXCEPT !.pc = "dropAnim", !.origin = "tap"]
                                ELSE NoProc]
                 /\ pointerDown = FALSE
                 /\ swaps = 1

RunSpec == RunInit /\ [][MatchNext]_vars

\* ------------------------------------------------------------ Game.start
\* After construction: the grid array is allocated and holds no gem.
StartInit ==
    \E shape \in {[rows |-> StartSide, cols |-> StartSide],
                   [rows |-> 1, cols |-> StartLine],
                   [rows |-> StartLine, cols |-> 1]} :
        /\ config = [rows |-> shape.rows, cols |-> shape.cols, recycle |-> FALSE,
                     maxGems |-> shape.rows * shape.cols]
        /\ gems = <<>>
        /\ grid = [cell \in (0 .. (shape.rows - 1)) \X (0 .. (shape.cols - 1)) |-> 0]
        /\ handlers = {}
        /\ state = "IDLE"
        /\ score = 0
        /\ moves = StartMoves
        /\ selectedGem = 0
        /\ draggingGem = 0
        /\ interactive = TRUE
        /\ procs = [p \in 1 .. MaxProcs |-> NoProc]
        /\ pointerDown = FALSE
        /\ swaps = 0

\* Game.start: initializeGrid, then attachGemHandlers.  draw[cell] is the type
\* the redraw loop of the cell ends with.
Start ==
    /\ gems = <<>>
    /\ \E draw \in [Cells -> Types] :
       \E b \in {initializeGrid(draw)} :
          /\ grid' = b.grid
          /\ gems' = b.gems
          /\ handlers' = DOMAIN b.gems
          /\ state' = "IDLE"
    /\ UNCHANGED <<config, score, moves, selectedGem, draggingGem, interactive,
                   procs, pointerDown, swaps>>

StartSpec == StartInit /\ [][Start]_vars

\* ---------------------------------------- a board filled draw by draw
\* An empty board, wide or tall.
DrawInit ==
    \E shape \in {[rows |-> DrawRows, cols |-> DrawCols],
                   [rows |-> DrawCols, cols |-> DrawRows]} :
        /\ config = [rows |-> shape.rows, cols |-> shape.cols, recycle |-> FALSE,
                     maxGems |-> shape.rows * shape.cols]
        /\ gems = <<>>
        /\ grid = [cell \in (0 .. (shape.rows - 1)) \X (0 .. (shape.cols - 1)) |-> 0]
        /\ handlers = {}
        /\ state = "IDLE"
        /\ score = 0
        /\ moves = StartMoves
        /\ selectedGem = 0
        /\ draggingGem = 0
        /\ interactive = TRUE
        /\ procs = [p \in 1 .. MaxProcs |-> NoProc]
        /\ pointerDown = FALSE
        /\ swaps = 0

\* Game.start with the draws of every cell given: initializeGrid, then
\* attachGemHandlers.
StartDrawn ==
    /\ gems = <<>>
    /\ \E streams \in [Cells -> DrawStreams] :
       \E b \in {DrawnFrom(EmptyGrid, <<>>, <<>>, streams, 0, 0)} :
          /\ grid' = b.grid
          /\ gems' = b.gems
          /\ handlers' = DOMAIN b.gems
          /\ state' = "IDLE"
    /\ UNCHANGED <<config, score, moves, selectedGem, draggingGem, interactive,
                   procs, pointerDown, swaps>>

DrawSpec == DrawInit /\ [][StartDrawn]_vars

\* ----------------------------------------------------- gravity and fill
\* A full board without a run, and any set of its tiles about to be removed:
\* the removal animation of these tiles is running.
GravityInit ==
    LET cells == (0 .. (GravityRows - 1)) \X (0 .. (GravityCols - 1))
        board == [r \in 1 .. GravityRows |-> [c \in 1 .. GravityCols |-> N((r + c) % GemTypes)]]
        b == PlaceFrom(board, [cell \in cells |-> 0], <<>>, 0, 0)
    IN \E removed \in SUBSET DOMAIN b.gems :
          /\ config = [rows |-> GravityRows, cols |-> GravityCols, recycle |-> FALSE,
                       maxGems |-> GravityRows * GravityCols + GravityNewGems]
          /\ gems = b.gems
          /\ grid = b.grid
          /\ handlers = DOMAIN b.gems
          /\ state = "SWAPPING"
          /\ score = 0
          /\ moves = StartMoves
          /\ selectedGem = 0
          /\ draggingGem = 0
          /\ interactive = FALSE
          /\ procs = [p \in 1 .. MaxProcs |->
                         IF p = 1
                         THEN [NoProc EXCEPT
                                 !.pc = "clearAnim", !.origin = "tap",
                                 !.list = SelectSeq([i \in 1 .. Len(b.gems) |-> i],
                                                    LAMBDA g : g \in removed)]
                         ELSE NoProc]
          /\ pointerDown = FALSE
          /\ swaps = 1

\* The steps from the end of a removal animation on; the board is too
\* narrow for a special to be spawned, so no explosion is ever run.
GravityNext ==
    \/ \E p \in ProcIds : RemoveAnimDone(p)
    \/ \E p \in ProcIds : FallAnimDone(p)
    \/ \E p \in ProcIds : DropAnimDone(p)
    \/ \E p \in ProcIds : MatchAnimDone(p)

GravitySpec == GravityInit /\ [][GravityNext]_vars

\* ----------------------------------------------------------- properties
\* A performSwap call is in progress in slot p.
Resolving(p) == procs[p].pc \notin {"none", "homeAnim"}

\* The board as the player sees it: cell -> <<identity, type, special>>.
Layout(gr, gm) ==
    [cell \in DOMAIN gr |->
        IF gr[cell] = 0 THEN <<0, 0, "none">>
        ELSE <<gr[cell], gm[gr[cell]].type, gm[gr[cell]].special>>]

\* Every cell holds a gem that has not been removed.
FullBoard == \A cell \in Cells : grid[cell] # 0 /\ ~gems[grid[cell]].isMatched

\* C1: a swap request that arrives while the phase is not IDLE is dropped,
\* so at no time are two performSwap resolutions in progress at once.
C1_OneResolution == Cardinality({p \in ProcIds : Resolving(p)}) <= 1

\* C2: when an accepted swap yields no match and is reverted, the board
\* holds the same tiles in the same cells as before the request, and score
\* and moves are what they were before the request.
C2_RevertRestores ==
    [][\A p \in ProcIds :
          (procs[p].pc = "backAnim" /\ procs'[p].pc = "none") =>
              /\ state' = "IDLE"
              /\ Layout(grid', gems') = Layout(procs[p].before.grid, gems)
              /\ score' = procs[p].before.score
              /\ moves' = procs[p].before.moves]_vars

\* The step of slot p in which the swap animation ends and the default match
\* check finds a match: neither a special combination nor a revert.
DefaultMatchStep(p) ==
    /\ procs[p].pc = "swapAnim"
    /\ procs'[p] # procs[p]
    /\ LET g1 == procs[p].gem1
           g2 == procs[p].gem2
           special == {gems[g1].special, gems[g2].special}
       IN /\ special \notin {{"plus"}, {"bomb"}, {"bomb", "plus"}}
          /\ Len(findMatches(swapGems(grid, gems, g1, g2).grid,
                             swapGems(grid, gems, g1, g2).gems)) > 0

\* C3: moves decreases by exactly 1 in the step where an accepted swap's
\* default match check finds a match, and no other step changes it.
C3_MovesStep ==
    [][moves' = IF \E p \in ProcIds : DefaultMatchStep(p) THEN moves - 1 ELSE moves]_vars

C3_Witness == state = "MATCHING" /\ moves = StartMoves - 1

\* C4: once moves is 0 no swap is accepted any more, so moves never goes
\* below 0.
C4_MovesNonNegative == moves >= 0

\* C5: whenever the phase is IDLE every cell of the board holds a live tile.
C5_IdleFull == state = "IDLE" => FullBoard

\* C6: the phase changes only along IDLE->SWAPPING, SWAPPING->MATCHING,
\* SWAPPING->IDLE, MATCHING->FILLING, FILLING->MATCHING and FILLING->IDLE.
C6_Transitions ==
    [][state' # state =>
          <<state, state'>> \in
              {<<"IDLE", "SWAPPING">>, <<"SWAPPING", "MATCHING">>,
               <<"SWAPPING", "IDLE">>, <<"MATCHING", "FILLING">>,
               <<"FILLING", "MATCHING">>, <<"FILLING", "IDLE">>}]_vars

\* C7: every accepted swap eventually brings the phase back to IDLE, whatever
\* types the refills draw.
C7_BackToIdle == <>(state = "IDLE")

\* A step of slot p that ends at a removal animation: a match pass, an
\* explosion, a plus line or a board clear has just been scored.
ScoringStep(p) ==
    /\ Resolving(p)
    /\ procs'[p] # procs[p]
    /\ procs'[p].pc \in {"matchAnim", "explAnim", "plusAnim", "clearAnim"}

\* C8: score starts at 0, no step decreases it, and it changes only in a
\* step of a resolution that scores a removal: never when a request is
\* rejected and never in a reverted swap.
C8_ScoreMonotonic ==
    /\ score = 0
    /\ [][/\ score' >= score
          /\ score' # score => \E p \in ProcIds : ScoringStep(p)]_vars

C8_Witness == state = "IDLE" /\ score > 0 /\ \A p \in ProcIds : procs[p].pc = "none"

\* Two gems lie in cells that share a side.
Neighbours(g1, g2) ==
    \E c1, c2 \in Cells :
        /\ grid[c1] = g1 /\ grid[c2] = g2
        /\ Abs(c1[1] - c2[1]) + Abs(c1[2] - c2[2]) = 1

\* A request names a second gem (or no gem, 0) that is not a neighbour of the
\* first: a second tap, or a release of the dragged gem.
RejectedRequest ==
    \/ /\ selectedGem # 0 /\ selectedGem' # selectedGem /\ selectedGem' # 0
       /\ ~Neighbours(selectedGem, selectedGem')
    \/ /\ draggingGem # 0 /\ pointerDown /\ ~pointerDown'
       /\ \E p \in ProcIds : procs[p].pc = "none" /\ procs'[p].pc = "homeAnim"

\* C9: a request naming two tiles that are not adjacent is rejected: no
\* performSwap starts and board, score, moves and phase are unchanged.
C9_NonAdjacentRejected ==
    [][/\ RejectedRequest =>
             /\ grid' = grid /\ gems' = gems /\ score' = score /\ moves' = moves
             /\ state' = state /\ swaps' = swaps
       /\ swaps' # swaps =>
             \E p \in ProcIds :
                 /\ procs'[p].pc = "swapAnim" /\ procs[p].pc = "none"
                 /\ Abs(gems[procs'[p].gem1].gridX - gems[procs'[p].gem2].gridX)
                    + Abs(gems[procs'[p].gem1].gridY - gems[procs'[p].gem2].gridY) = 1]_vars

C9_Witness ==
    /\ \E p \in ProcIds : procs[p].pc = "homeAnim"
    /\ swaps = 0 /\ state = "IDLE" /\ score = 0 /\ moves = StartMoves

\* The gems that lie in a run of the board.
MatchedTiles(gr, gm) == SeqToSet(Flatten(findMatches(gr, gm)))

\* The number of gems created in this step with the given special kind.
Created(special) ==
    Cardinality({g \in (Len(gems) + 1) .. Len(gems') : gems'[g].special = special})

\* C10: a match pass adds to score exactly 10 per distinct tile removed, 20
\* per bomb spawned, 30 per plus spawned and 10 more per tile removed only
\* because a blast or line reached it; the pass then removes these tiles and
\* spawns these specials.
C10_MatchPassScore ==
    [][\A p \in ProcIds :
          /\ (procs'[p] # procs[p] /\ procs'[p].pc = "matchAnim") =>
                LET removed == SeqToSet(procs'[p].list)
                    added == removed \ MatchedTiles(grid', gems')
                IN /\ MatchedTiles(grid', gems') \subseteq removed
                   /\ score' - score =
                         Cardinality(removed) * 10
                         + Len(procs'[p].bombsToSpawn) * 20
                         + Len(procs'[p].plusesToSpawn) * 30
                         + Cardinality(added) * 10
          /\ (procs'[p] # procs[p] /\ procs[p].pc = "matchAnim") =>
                /\ \A g \in SeqToSet(procs[p].list) : gems'[g].isMatched
                /\ Created("bomb") = Len(procs[p].bombsToSpawn)
                /\ Created("plus") = Len(procs[p].plusesToSpawn)]_vars

\* A pass that removes a tile outside every run and spawns a bomb.
C10_Witness ==
    \E p \in ProcIds :
        /\ procs[p].pc = "matchAnim"
        /\ Len(procs[p].bombsToSpawn) > 0
        /\ SeqToSet(procs[p].list) \ MatchedTiles(grid, gems) # {}

\* The gems that lie in a cell of the grid.
OnBoard(gr) == {gr[cell] : cell \in DOMAIN gr} \ {0}

\* The gems removed in this step.
NewlyRemoved == {g \in DOMAIN gems : gems'[g].isMatched /\ ~gems[g].isMatched}

\* C11: a run of processExplosions adds to score exactly 20 per distinct
\* tile it removes from the board, the tiles it lists are the tiles it
\* removes, and a run that reaches no tile adds nothing and removes nothing.
C11_ExplosionScore ==
    [][\A p \in ProcIds :
          /\ (procs'[p] # procs[p] /\ procs'[p].pc = "explAnim") =>
                LET removed == SeqToSet(procs'[p].list)
                IN /\ Cardinality(removed) = Len(procs'[p].list)
                   /\ removed # {}
                   /\ removed \subseteq OnBoard(grid')
                   /\ score' - score = 20 * Cardinality(removed)
          /\ (procs'[p] # procs[p] /\ procs[p].pc = "explAnim") =>
                /\ NewlyRemoved = SeqToSet(procs[p].list)
                /\ OnBoard(grid') \cap SeqToSet(procs[p].list) = {}
                /\ procs'[p].pc \in {"fallAnim", "dropAnim", "none"} => score' = score]_vars

\* A group of findMatches is a plain straight run: it holds no special gem
\* and shares no gem with another group (so it is in no L/T union).
PlainRun(gm, matches, i) ==
    /\ \A k \in 1 .. Len(matches[i]) : gm[matches[i][k]].special = "none"
    /\ \A j \in 1 .. Len(matches) :
          j # i => SeqToSet(matches[i]) \cap SeqToSet(matches[j]) = {}

\* The spawn requests of a pass that lie in a cell of the group.
RequestsIn(gm, requests, group) ==
    {k \in 1 .. Len(requests) :
        \E g \in SeqToSet(group) :
            gm[g].gridY = requests[k].row /\ gm[g].gridX = requests[k].col}

\* The board of a pass after removeGems and the two spawn loops, before gravity.
BeforeGravity(p) ==
    LET r == removeGems(grid, gems, procs[p].list)
        sb == SpawnAll(r.grid, r.gems, procs[p].bombsToSpawn, "bomb")
    IN SpawnAll(sb.grid, sb.gems, procs[p].plusesToSpawn, "plus")

\* C12: a plain straight run of 3 spawns nothing, a run of 4 one bomb and a
\* run of 5 or more one plus; the spawned tile has the run's type and, before
\* gravity, sits in the cell of the run's element floor(length / 2), and
\* every other cell of the run is empty.
C12_RunSpawn ==
    \A p \in ProcIds :
        procs[p].pc = "matchAnim" =>
            LET matches == findMatches(grid, gems)
                after == BeforeGravity(p)
            IN \A i \in 1 .. Len(matches) :
                  PlainRun(gems, matches, i) =>
                     LET group == matches[i]
                         len == Len(group)
                         bombs == RequestsIn(gems, procs[p].bombsToSpawn, group)
                         pluses == RequestsIn(gems, procs[p].plusesToSpawn, group)
                         middle == <<gems[group[(len \div 2) + 1]].gridY,
                                     gems[group[(len \div 2) + 1]].gridX>>
                         new == after.grid[middle]
                     IN /\ Cardinality(bombs) = IF len = 4 THEN 1 ELSE 0
                        /\ Cardinality(pluses) = IF len >= 5 THEN 1 ELSE 0
                        /\ \A g \in SeqToSet(group) :
                              <<gems[g].gridY, gems[g].gridX>> # middle
                                 => after.grid[<<gems[g].gridY, gems[g].gridX>>] = 0
                        /\ IF len = 3 THEN new = 0
                           ELSE /\ new > Len(gems)
                                /\ after.gems[new].type = gems[group[1]].type
                                /\ after.gems[new].special =
                                      (IF len = 4 THEN "bomb" ELSE "plus")

\* The special gems among the gems of a list.
SpecialsOf(gm, list) == {g \in SeqToSet(list) : gm[g].special # "none"}

\* The tiles on the board within the given cells.
TilesIn(gr, cells) == {gr[cell] : cell \in cells \cap DOMAIN gr} \ {0}

\* C13: a bomb of radius 1 at (r, c) with no other special in reach removes
\* exactly the tiles of rows r-1..r+1 and columns c-1..c+1 that are on the
\* board (next to the matched tiles when it goes off inside a match pass),
\* each once.
C13_BombSquare ==
    [][\A p \in ProcIds :
          (procs'[p] # procs[p] /\ procs'[p].pc \in {"matchAnim", "explAnim"}) =>
             \A b \in DOMAIN gems' :
                (SpecialsOf(gems', procs'[p].list) = {b} /\ isBomb(gems', b)) =>
                   LET r == gems'[b].gridY
                       c == gems'[b].gridX
                       square == TilesIn(grid', ((r - 1) .. (r + 1)) \X ((c - 1) .. (c + 1)))
                       base == IF procs'[p].pc = "matchAnim"
                               THEN MatchedTiles(grid', gems') ELSE {}
                   IN /\ SeqToSet(procs'[p].list) = base \cup square
                      /\ Len(procs'[p].list) = Cardinality(base \cup square)]_vars

\* A bomb in the top left corner of a 3 x 3 board goes off inside a match pass.
C13_Witness ==
    \E p \in ProcIds :
        /\ procs[p].pc = "matchAnim"
        /\ Rows = 3
        /\ \E b \in DOMAIN gems :
              /\ SpecialsOf(gems, procs[p].list) = {b}
              /\ isBomb(gems, b)
              /\ gems[b].gridY = 0 /\ gems[b].gridX = 0
              /\ TilesIn(grid, (0 .. 1) \X (0 .. 1)) \ MatchedTiles(grid, gems) # {}

\* C14: a plus at (r, c) that goes off removes every tile of row r and of
\* column c, each once; when it is the only special removed and the board is
\* full, the tiles removed are those lines (next to the matched tiles in a
\* match pass), rows + cols - 1 of them when the match lies on the lines; a
\* run of the explosion engine scores 20 for each tile it removes.
C14_PlusCross ==
    [][\A p \in ProcIds :
          (procs'[p] # procs[p] /\ procs'[p].pc \in {"matchAnim", "explAnim"}) =>
             \A plus \in SpecialsOf(gems', procs'[p].list) :
                isPlus(gems', plus) =>
                   LET r == gems'[plus].gridY
                       c == gems'[plus].gridX
                       cross == TilesIn(grid', {cell \in DOMAIN grid' : cell[1] = r \/ cell[2] = c})
                       base == IF procs'[p].pc = "matchAnim"
                               THEN MatchedTiles(grid', gems') ELSE {}
                       removed == SeqToSet(procs'[p].list)
                   IN /\ cross \subseteq removed
                      /\ Len(procs'[p].list) = Cardinality(removed)
                      /\ procs'[p].pc = "explAnim" => score' - score = 20 * Cardinality(removed)
                      /\ (SpecialsOf(gems', procs'[p].list) = {plus}
                            /\ \A cell \in DOMAIN grid' : grid'[cell] # 0) =>
                            /\ removed = base \cup cross
                            /\ base \subseteq cross => Len(procs'[p].list) = Rows + Cols - 1]_vars

\* On a full 3 x 3 board a plus in a matched run goes off: 5 tiles are removed.
C14_Witness ==
    \E p \in ProcIds :
        /\ procs[p].pc = "matchAnim"
        /\ Rows = 3
        /\ \A cell \in Cells : grid[cell] # 0
        /\ \E plus \in DOMAIN gems :
              /\ SpecialsOf(gems, procs[p].list) = {plus}
              /\ isPlus(gems, plus)
        /\ Len(procs[p].list) = Rows + Cols - 1

\* The cells a special covers when it goes off: radius 0 stands for a plus.
AreaOf(gr, gm, a) ==
    LET r == gm[a.gem].gridY
        c == gm[a.gem].gridX
    IN IF a.radius = 0 THEN {cell \in DOMAIN gr : cell[1] = r \/ cell[2] = c}
       ELSE {cell \in DOMAIN gr : Abs(cell[1] - r) <= a.radius /\ Abs(cell[2] - c) <= a.radius}

RECURSIVE Closure(_, _, _)
\* The tiles reached from a set of activations: every special among the tiles
\* reached is activated too, a bomb at radius 1.
Closure(gr, gm, acts) ==
    LET reached == TilesIn(gr, UNION {AreaOf(gr, gm, a) : a \in acts})
        more == {[gem |-> g, radius |-> IF isBomb(gm, g) THEN 1 ELSE 0] :
                    g \in {x \in reached : gm[x].special # "none"
                                           /\ x \notin {a.gem : a \in acts}}}
    IN IF more = {} THEN reached ELSE Closure(gr, gm, acts \cup more)

\* The seeds of the run of processExplosions a handler starts with the step.
SeedsOf(p) ==
    LET L == procs[p]
        new == [i \in 1 .. (Len(gems') - Len(gems)) |-> Len(gems) + i]
        hit(g) == Triggered(gems', g, L.bombsToExplode, L.plusesToExplode)
        bombs == SelectSeq(new, LAMBDA g : isBomb(gems', g) /\ hit(g))
    IN IF L.pc = "matchAnim"
       THEN [bombs |-> [i \in 1 .. Len(bombs) |-> [gem |-> bombs[i], radius |-> 1]],
             pluses |-> SelectSeq(new, LAMBDA g : isPlus(gems', g) /\ hit(g))]
       ELSE IF L.pc = "explAnim"
       THEN [bombs |-> <<[gem |-> L.gem2, radius |-> 2]>>, pluses |-> <<>>]
       ELSE IF isBomb(gems, L.gem1) /\ isBomb(gems, L.gem2)
       THEN [bombs |-> <<[gem |-> L.gem1, radius |-> 2]>>, pluses |-> <<>>]
       ELSE [bombs |-> <<[gem |-> IF isBomb(gems, L.gem1) THEN L.gem1 ELSE L.gem2,
                          radius |-> 1]>>,
             pluses |-> <<>>]

\* C15: the tiles a run of the explosion engine removes are exactly the
\* tiles reached from its seeds (seed bombs at their seed radius, reached
\* bombs at radius 1, reached pluses along their row and column); the list
\* has no duplicate and no special goes off twice.
C15_EngineClosure ==
    [][\A p \in ProcIds :
          (procs'[p] # procs[p] /\ procs'[p].pc = "explAnim") =>
             LET seeds == SeedsOf(p)
                 run == CollectExplosions(grid', gems', seeds.bombs, seeds.pluses)
                 acts == SeqToSet(seeds.bombs)
                            \cup {[gem |-> g, radius |-> 0] : g \in SeqToSet(seeds.pluses)}
                 removed == SeqToSet(procs'[p].list)
             IN /\ procs'[p].list = run.removed
                /\ removed = Closure(grid', gems', acts)
                /\ Len(procs'[p].list) = Cardinality(removed)
                /\ Len(run.activated) = Cardinality(SeqToSet(run.activated))
                /\ SeqToSet(run.activated) =
                      {a.gem : a \in acts} \cup SpecialsOf(gems', procs'[p].list)]_vars

\* An engine run in which a reached special went off: the list holds a
\* special that is not one of the two swapped tiles.
C15_Witness ==
    \E p \in ProcIds :
        /\ procs[p].pc = "explAnim"
        /\ procs[p].gem1 # 0
        /\ SpecialsOf(gems, procs[p].list) \ {procs[p].gem1, procs[p].gem2} # {}

\* C16: swapping two adjacent pluses removes every tile and adds 50 for each
\* tile removed; the refill then puts a newly created plain tile in every
\* cell, rows x cols of them, none of which was on the board before.
C16_ClearBoard ==
    [][\A p \in ProcIds :
          /\ (procs'[p] # procs[p] /\ procs'[p].pc = "clearAnim") =>
                /\ SeqToSet(procs'[p].list) = OnBoard(grid')
                /\ Len(procs'[p].list) = Cardinality(OnBoard(grid'))
                /\ score' - score = 50 * Cardinality(OnBoard(grid'))
          /\ (procs'[p] # procs[p] /\ procs[p].pc = "clearAnim") =>
                /\ OnBoard(grid) \subseteq NewlyRemoved
                /\ \A cell \in DOMAIN grid' :
                      /\ grid'[cell] > Len(gems)
                      /\ gems'[grid'[cell]].special = "none"
                /\ Cardinality(OnBoard(grid')) = Rows * Cols
                /\ score' = score]_vars

\* The only match of a board is one straight run of exactly 3 plain tiles.
OneRunOfThree(gr, gm) ==
    LET matches == findMatches(gr, gm)
    IN /\ Len(matches) = 1
       /\ Len(matches[1]) = 3
       /\ \A k \in 1 .. 3 : gm[matches[1][k]].special = "none"

\* The resolution of handler p has so far scored one run of 3 and cost one move.
OneRunSoFar(p) ==
    /\ score = procs[p].before.score + 30
    /\ moves = procs[p].before.moves - 1

\* C17: an accepted swap whose only match is one straight run of 3 plain
\* tiles, with a refill that creates no match, adds 30 to score, takes one
\* move, spawns no special and goes through the phases IDLE, SWAPPING,
\* MATCHING, FILLING, IDLE, once each in this order.
C17_PlainMatch ==
    [][\A p \in ProcIds :
          procs'[p] # procs[p] =>
             /\ (procs'[p].pc = "swapAnim"
                   /\ Bind(swapGems(grid, gems, procs'[p].gem1, procs'[p].gem2),
                           LAMBDA s : OneRunOfThree(s.grid, s.gems))) =>
                   state = "IDLE" /\ state' = "SWAPPING"
             /\ (procs[p].pc = "swapAnim" /\ OneRunOfThree(grid', gems')
                   /\ gems'[procs[p].gem1].special = "none"
                   /\ gems'[procs[p].gem2].special = "none") =>
                   /\ state = "SWAPPING" /\ state' = "MATCHING"
                   /\ procs'[p].pc = "matchAnim"
                   /\ score = procs[p].before.score /\ moves = procs[p].before.moves
                   /\ score' = score + 30 /\ moves' = moves - 1
                   /\ procs'[p].bombsToSpawn = <<>> /\ procs'[p].plusesToSpawn = <<>>
                   /\ Len(procs'[p].list) = 3
             /\ (procs[p].pc = "matchAnim" /\ OneRunSoFar(p)) =>
                   /\ state = "MATCHING" /\ state' = "FILLING"
                   /\ procs'[p].pc \in {"fallAnim", "dropAnim"}
                   /\ score' = score /\ moves' = moves
                   /\ \A g \in (Len(gems) + 1) .. Len(gems') : gems'[g].special = "none"
             /\ (procs[p].pc = "fallAnim" /\ OneRunSoFar(p)) =>
                   /\ state = "FILLING" /\ state' = "FILLING"
                   /\ procs'[p].pc = "dropAnim"
                   /\ score' = score /\ moves' = moves
                   /\ \A g \in (Len(gems) + 1) .. Len(gems') : gems'[g].special = "none"
             /\ (procs[p].pc = "dropAnim" /\ OneRunSoFar(p)
                   /\ findMatches(grid, gems) = <<>>) =>
                   /\ state = "FILLING" /\ state' = "IDLE"
                   /\ procs'[p].pc = "none"
                   /\ score' = score /\ moves' = moves]_vars

\* C18: when any N tiles are removed from a full board, applyGravity then
\* fillEmpty leave no empty cell and rows x cols tiles; fillEmpty returns N
\* new plain tiles and leaves every tile already on the board as it is, in
\* its cell.
C18_GravityFill ==
    \A p \in ProcIds :
        (/\ procs[p].pc \in {"clearAnim", "matchAnim"}
         /\ procs[p].bombsToSpawn = <<>> /\ procs[p].plusesToSpawn = <<>>
         /\ \A cell \in Cells : grid[cell] # 0) =>
           LET r == removeGems(grid, gems, procs[p].list)
               a == applyGravity(r.grid, r.gems)
               n == Len(procs[p].list)
           IN /\ OnBoard(a.grid) = OnBoard(grid) \ SeqToSet(procs[p].list)
              /\ Cardinality(EmptyCells(a.grid)) = n
              /\ \A draw \in [EmptyCells(a.grid) -> Types] :
                    LET f == fillEmpty(a.grid, a.gems, draw)
                    IN /\ EmptyCells(f.grid) = {}
                       /\ Cardinality(OnBoard(f.grid)) = Rows * Cols
                       /\ Len(f.newGems) = n
                       /\ Cardinality(SeqToSet(f.newGems)) = n
                       /\ \A g \in SeqToSet(f.newGems) :
                             /\ g > Len(gems)
                             /\ f.gems[g].special = "none"
                             /\ ~f.gems[g].isMatched
                             /\ f.grid[<<f.gems[g].gridY, f.gems[g].gridX>>] = g
                       /\ \A g \in 1 .. Len(gems) : f.gems[g] = a.gems[g]
                       /\ \A cell \in Cells : a.grid[cell] # 0 => f.grid[cell] = a.grid[cell]

\* Four tiles were removed from the full board, some from under others, and
\* the board is full again with four new tiles.
C18_Witness ==
    \E p \in ProcIds :
        /\ procs[p].pc = "dropAnim"
        /\ Len(gems) = Rows * Cols + 4
        /\ \A cell \in Cells : grid[cell] # 0
        /\ gems[grid[<<Rows - 1, 0>>]].isMatched = FALSE
        /\ grid[<<Rows - 1, 0>>] < grid[<<0, 0>>]
        /\ grid[<<Rows - 1, 0>>] # (Rows - 1) * Cols + 1

\* C19: a board made by initializeGrid on which no cell was created with a
\* type that still made a run (which takes all 10 redraws of the cell) has
\* no match: findMatches returns no group.
C19_NoInitialMatch ==
    gems # <<>> =>
       LET b == initializeGrid([cell \in Cells |-> gems[grid[cell]].type])
       IN (grid = b.grid /\ gems = b.gems /\ ~b.exhausted) => findMatches(grid, gems) = <<>>

\* A square board without a run on which the first two tiles of the top row
\* and of the left column are alike: a third one had to differ.
C19_Witness ==
    /\ gems # <<>>
    /\ Rows = StartSide /\ Cols = StartSide
    /\ ~initializeGrid([cell \in Cells |-> gems[grid[cell]].type]).exhausted
    /\ gems[grid[<<0, 0>>]].type = gems[grid[<<0, 1>>]].type
    /\ gems[grid[<<0, 0>>]].type = gems[grid[<<1, 0>>]].type

\* C20: getGemAt returns nothing for every coordinate outside the board,
\* negative ones included, and the content of the cell for every coordinate
\* on the board; it reads the grid and never fails.
C20_GetGemAt ==
    \A row \in (0 - Margin) .. (Rows - 1 + Margin) :
        \A col \in (0 - Margin) .. (Cols - 1 + Margin) :
            getGemAt(grid, row, col) =
                IF <<row, col>> \in DOMAIN grid THEN grid[<<row, col>>] ELSE 0

\* The blast of a bomb in the top left corner was collected: getGemAt was
\* asked for the cells at row -1 and column -1 and for the bomb's own cell.
C20_Witness ==
    \E p \in ProcIds :
        /\ procs[p].pc = "explAnim"
        /\ \E b \in SpecialsOf(gems, procs[p].list) :
              /\ isBomb(gems, b)
              /\ gems[b].gridY = 0 /\ gems[b].gridX = 0
              /\ getGemAt(grid, 0, 0) = b
              /\ getGemAt(grid, -1, -1) = 0

\* The maximal straight runs of a board: 3 or more consecutive cells of a
\* row or of a column that hold tiles of one type, with no tile of that type
\* in the cell before the first or after the last; each as the sequence of
\* its tiles from left to right or from top to bottom.
MaximalRuns(gr, gm) ==
    LET typeAt(cell) == IF cell \in DOMAIN gr /\ gr[cell] # 0 THEN gm[gr[cell]].type ELSE -1
        at(start, dir, k) == <<start[1] + k * dir[1], start[2] + k * dir[2]>>
        len(start, dir) ==
            Cardinality({n \in 1 .. (Rows + Cols) :
                            \A k \in 0 .. (n - 1) : typeAt(at(start, dir, k)) = typeAt(start)})
    IN {[k \in 1 .. len(run[1], run[2]) |-> gr[at(run[1], run[2], k - 1)]] :
           run \in {x \in (DOMAIN gr) \X {<<0, 1>>, <<1, 0>>} :
                       /\ typeAt(x[1]) # -1
                       /\ typeAt(at(x[1], x[2], -1)) # typeAt(x[1])
                       /\ len(x[1], x[2]) >= 3}}

\* C21: findMatches returns exactly the maximal straight runs of 3 or more
\* non-empty tiles of one type in a row or a column, whatever their special
\* kind, each once and with its tiles in scan order.
C21_MaximalRuns ==
    \E matches \in {findMatches(grid, gems)} :
       \E runs \in {MaximalRuns(grid, gems)} :
          /\ SeqToSet(matches) = runs
          /\ Len(matches) = Cardinality(runs)

\* A row whose only run has 4 tiles, one of them special, next to a fifth
\* tile of the other type.
C21_Witness ==
    /\ Len(findMatches(grid, gems)) = 1
    /\ Len(findMatches(grid, gems)[1]) = 4
    /\ SpecialsOf(gems, findMatches(grid, gems)[1]) # {}
    /\ \A cell \in Cells : grid[cell] # 0

\* C22: for every horizontal and vertical run of a pass that share a tile,
\* exactly one bomb is requested at the cell of a tile that is in both runs,
\* and all tiles of the two runs are removed.
C22_UnionPivot ==
    [][\A p \in ProcIds :
          (procs'[p] # procs[p] /\ procs'[p].pc = "matchAnim") =>
             \E matches \in {findMatches(grid', gems')} :
                \A i, j \in 1 .. Len(matches) :
                   (i < j /\ SeqToSet(matches[i]) \cap SeqToSet(matches[j]) # {}) =>
                      /\ Cardinality(RequestsIn(gems', procs'[p].bombsToSpawn,
                            SelectSeq(matches[i], LAMBDA g : InSeq(g, matches[j])))) = 1
                      /\ SeqToSet(matches[i]) \cup SeqToSet(matches[j])
                            \subseteq SeqToSet(procs'[p].list)]_vars

\* C23: a group of a match pass that shares no tile with another group (so
\* is no part of an L/T union) and holds a bomb or a plus spawns nothing,
\* whatever its length: no spawn request lies on a cell of the group, each
\* special of the group is queued for activation and each tile of the group
\* is in the removal list.
C23_SpecialInGroup ==
    [][\A p \in ProcIds :
          (procs'[p] # procs[p] /\ procs'[p].pc = "matchAnim") =>
             \E matches \in {findMatches(grid', gems')} :
                \A i \in 1 .. Len(matches) :
                   (/\ SpecialsOf(gems', matches[i]) # {}
                    /\ \A j \in 1 .. Len(matches) :
                          j # i => SeqToSet(matches[i]) \cap SeqToSet(matches[j]) = {}) =>
                      /\ RequestsIn(gems', procs'[p].bombsToSpawn \o procs'[p].plusesToSpawn,
                                    matches[i]) = {}
                      /\ SpecialsOf(gems', matches[i]) \subseteq
                            SeqToSet(procs'[p].bombsToExplode) \cup
                            SeqToSet(procs'[p].plusesToExplode)
                      /\ SeqToSet(matches[i]) \subseteq SeqToSet(procs'[p].list)]_vars

\* A pass on one row of five tiles of one type with a plus among them.
C23_Witness ==
    /\ Rows = 1
    /\ \E p \in ProcIds :
          /\ procs[p].pc = "matchAnim"
          /\ Len(procs[p].list) = 5
          /\ Len(procs[p].plusesToExplode) = 1
          /\ procs[p].bombsToSpawn = <<>>
          /\ procs[p].plusesToSpawn = <<>>
          /\ \A g \in SeqToSet(procs[p].list) : gems[g].type = gems[procs[p].list[1]].type

\* C24: when the removal animation of a match pass ends, each bomb or plus
\* the pass spawns within one cell of a bomb activated in the pass, or in the
\* row or the column of a plus activated in the pass, goes through
\* processExplosions: the pass waits for the engine's removal animation with
\* that special in the removed list, and when that animation ends no tile of
\* the list is left on the board that gravity is applied to.
C24_TriggeredSpawn ==
    [][\A p \in ProcIds :
          /\ (procs[p].pc = "matchAnim" /\ procs'[p] # procs[p]) =>
                \E bg \in {BeforeGravity(p)} :
                   \A sp \in (Len(gems) + 1) .. Len(bg.gems) :
                      (\/ \E b \in SeqToSet(procs[p].bombsToExplode) :
                             /\ Abs(bg.gems[sp].gridY - gems[b].gridY) <= 1
                             /\ Abs(bg.gems[sp].gridX - gems[b].gridX) <= 1
                       \/ \E q \in SeqToSet(procs[p].plusesToExplode) :
                             \/ bg.gems[sp].gridY = gems[q].gridY
                             \/ bg.gems[sp].gridX = gems[q].gridX) =>
                         /\ procs'[p].pc = "explAnim"
                         /\ sp \in OnBoard(bg.grid) => InSeq(sp, procs'[p].list)
          /\ (procs[p].pc = "explAnim" /\ procs'[p] # procs[p]) =>
                SeqToSet(procs[p].list) \cap OnBoard(grid') = {}]_vars

\* The engine's removal animation of a pass that spawned a special runs, the
\* spawned special in its list.
C24_Witness ==
    \E p \in ProcIds :
       /\ procs[p].pc = "explAnim"
       /\ procs[p].origin = "tap"
       /\ \E g \in SeqToSet(procs[p].list) :
             /\ gems[g].special # "none"
             /\ g > Rows * Cols
       /\ \A h \in DOMAIN gems : h > Rows * Cols => gems[h].special # "none"

\* C25: the tiles a match pass removes are the tiles of the matched groups
\* and the tiles reached from the bombs and pluses among them, each special
\* reached going off in turn; this is the set processExplosions removes on
\* the same board from those specials as seeds of radius 1, joined with the
\* matched tiles; and the area of every bomb or plus in the removal list is
\* in the list.
C25_InlineClosure ==
    [][\A p \in ProcIds :
          (procs'[p] # procs[p] /\ procs'[p].pc = "matchAnim") =>
             LET matched == MatchedTiles(grid', gems')
                 ids == [g \in 1 .. Len(gems') |-> g]
                 seedBombs == SelectSeq(ids, LAMBDA g : g \in matched /\ isBomb(gems', g))
                 seedPluses == SelectSeq(ids, LAMBDA g : g \in matched /\ isPlus(gems', g))
                 act(g) == [gem |-> g, radius |-> IF isBomb(gems', g) THEN 1 ELSE 0]
                 run == CollectExplosions(grid', gems',
                           [i \in 1 .. Len(seedBombs) |-> act(seedBombs[i])], seedPluses)
                 removed == SeqToSet(procs'[p].list)
             IN /\ removed = matched \cup Closure(grid', gems',
                                {act(g) : g \in SeqToSet(seedBombs) \cup SeqToSet(seedPluses)})
                /\ removed = matched \cup SeqToSet(run.removed)
                /\ Len(procs'[p].list) = Cardinality(removed)
                /\ \A g \in SpecialsOf(gems', procs'[p].list) :
                      TilesIn(grid', AreaOf(grid', gems', act(g))) \subseteq removed]_vars

\* A pass whose matched bomb reaches a special outside the groups, which goes
\* off in turn.
C25_Witness ==
    \E p \in ProcIds :
       /\ procs[p].pc = "matchAnim"
       /\ \A cell \in Cells : grid[cell] # 0
       /\ \E g \in SpecialsOf(gems, procs[p].list) : g \notin MatchedTiles(grid, gems)
       /\ \E g \in SeqToSet(procs[p].list) :
             /\ g \notin MatchedTiles(grid, gems)
             /\ \A h \in MatchedTiles(grid, gems) :
                   gems[h].special # "none" =>
                      g \notin TilesIn(grid, AreaOf(grid, gems,
                                  [gem |-> h, radius |-> IF isBomb(gems, h) THEN 1 ELSE 0]))

\* C26: after a swap of two adjacent bombs each goes off at radius 2.  When
\* the removal animation of the first ends, and the two squares of 5 x 5
\* cells around the bombs' cells after the swap, clipped to the board, hold no
\* other special, the tiles of the first removal and the tiles the second
\* detonation takes are together the tiles of the two squares, each in one of
\* the two lists once; the score is 20 a tile above the score before the
\* swap; and the handler goes on to the second removal animation or, through
\* gravity, to the fall or the refill.
C26_TwoBombs ==
    [][\A p \in ProcIds :
          (procs[p].pc = "explAnim" /\ procs[p].ret = "bomb2" /\ procs'[p] # procs[p]) =>
             LET first == procs[p].list
                 second == IF procs'[p].pc = "explAnim" THEN procs'[p].list ELSE <<>>
                 squares == TilesIn(grid,
                               AreaOf(grid, gems, [gem |-> procs[p].gem1, radius |-> 2])
                               \cup AreaOf(grid, gems, [gem |-> procs[p].gem2, radius |-> 2]))
             IN {g \in squares : gems[g].special # "none"} = {procs[p].gem1, procs[p].gem2} =>
                   /\ SeqToSet(first) \cup SeqToSet(second) = squares
                   /\ Len(first) + Len(second) = Cardinality(squares)
                   /\ score' = procs[p].before.score + 20 * Cardinality(squares)
                   /\ procs'[p].pc \in {"explAnim", "fallAnim", "dropAnim"}
                   /\ procs'[p].pc = "explAnim" => procs'[p].ret = "fill"]_vars

\* C27: after a swap of an adjacent bomb and plus both go off.  With no other
\* special in the bomb's clipped square of 3 x 3 cells or in the row and the
\* column of the plus, taken at the cells the two hold after the swap, the
\* tiles removed when explodeAt and explodePlusAt are over are the tiles of
\* that square, row and column, each removed once and scored 20; with other
\* specials there, each of them has gone off too: its own area is removed.
C27_BombAndPlus ==
    [][\A p \in ProcIds :
          (procs[p].pc = "explAnim" /\ procs[p].ret = "plus" /\ procs'[p] # procs[p]) =>
             LET bomb == IF isBomb(gems, procs[p].gem1) THEN procs[p].gem1 ELSE procs[p].gem2
                 plus == IF isBomb(gems, procs[p].gem1) THEN procs[p].gem2 ELSE procs[p].gem1
                 act(g) == [gem |-> g, radius |-> IF isBomb(gems, g) THEN 1 ELSE 0]
                 first == procs[p].list
                 second == IF procs'[p].pc = "plusAnim" THEN procs'[p].list ELSE <<>>
                 area == TilesIn(grid, AreaOf(grid, gems, act(bomb)) \cup AreaOf(grid, gems, act(plus)))
                 removed == SeqToSet(first) \cup SeqToSet(second)
             IN /\ area \subseteq removed
                /\ Len(first) + Len(second) = Cardinality(removed)
                /\ score' = procs[p].before.score + 20 * Cardinality(removed)
                /\ \A g \in area : gems[g].special # "none" =>
                      TilesIn(grid, AreaOf(grid, gems, act(g))) \subseteq removed
                /\ {g \in area : gems[g].special # "none"} = {bomb, plus} => removed = area
                /\ procs'[p].pc \in {"plusAnim", "fallAnim", "dropAnim"}]_vars

\* C28: in a run of processExplosions a plus goes off only when no bomb is
\* pending: a bomb that goes off after a plus was first reached by that plus
\* or by a later special; bombs go off in the order in which they were
\* reached, and so do pluses; and the removed set does not depend on the
\* order: it is the set of tiles reached from the seeds, and the run with the
\* seeds taken in the opposite order removes the same set.
C28_WorklistOrder ==
    [][\A p \in ProcIds :
          (procs'[p] # procs[p] /\ procs'[p].pc = "explAnim") =>
             LET seeds == SeedsOf(p)
                 run == CollectExplosions(grid', gems', seeds.bombs, seeds.pluses)
                 reversed(q) == [i \in 1 .. Len(q) |-> q[Len(q) + 1 - i]]
                 other == CollectExplosions(grid', gems', reversed(seeds.bombs),
                                            reversed(seeds.pluses))
                 act == run.activated
                 radiusOf(g) == IF isPlus(gems', g) THEN 0
                                ELSE IF \E i \in 1 .. Len(seeds.bombs) : seeds.bombs[i].gem = g
                                THEN seeds.bombs[CHOOSE i \in 1 .. Len(seeds.bombs) :
                                                    seeds.bombs[i].gem = g].radius
                                ELSE 1
                 reach(k) == TilesIn(grid', AreaOf(grid', gems',
                                        [gem |-> act[k], radius |-> radiusOf(act[k])]))
                 found(g) == IF \E k \in 1 .. Len(act) : g \in reach(k)
                             THEN CHOOSE k \in 1 .. Len(act) :
                                     g \in reach(k) /\ \A m \in 1 .. (k - 1) : g \notin reach(m)
                             ELSE 0
                 when(g) == IF g \in {seeds.bombs[i].gem : i \in 1 .. Len(seeds.bombs)}
                                     \cup SeqToSet(seeds.pluses)
                            THEN 0 ELSE found(g)
             IN /\ procs'[p].list = run.removed
                /\ \A k, j \in 1 .. Len(act) :
                      k < j =>
                         /\ (isPlus(gems', act[k]) /\ isBomb(gems', act[j])) => when(act[j]) >= k
                         /\ isBomb(gems', act[k]) = isBomb(gems', act[j]) =>
                               when(act[k]) <= when(act[j])
                /\ SeqToSet(other.removed) = SeqToSet(run.removed)
                /\ SeqToSet(run.removed) =
                      Closure(grid', gems',
                              SeqToSet(seeds.bombs)
                                 \cup {[gem |-> g, radius |-> 0] : g \in SeqToSet(seeds.pluses)})]_vars

\* The run of a swapped bomb that reaches the swapped plus and another bomb:
\* both are pending when the first blast is over.
C28_Witness ==
    \E p \in ProcIds :
       /\ procs[p].pc = "explAnim"
       /\ procs[p].ret = "plus"
       /\ \A cell \in Cells : grid[cell] # 0
       /\ \E b \in SpecialsOf(gems, procs[p].list) \ {procs[p].gem1, procs[p].gem2} :
             /\ isBomb(gems, b)
             /\ \E g \in {procs[p].gem1, procs[p].gem2} :
                   /\ isBomb(gems, g)
                   /\ Abs(gems[b].gridY - gems[g].gridY) <= 1
                   /\ Abs(gems[b].gridX - gems[g].gridX) <= 1

\* C29: one applyGravity, on the board a handler leaves when its pending
\* removal is done, gives a board where in every column no tile has an empty
\* cell below it, the column holds the tiles it held, in the same order from
\* the top down, so that no tile changes column, and every tile that is in
\* another cell than before has that cell as its recorded row and column.
C29_Gravity ==
    \A p \in ProcIds :
       \E r \in {removeGems(grid, gems, procs[p].list)} :
       \E a \in {applyGravity(r.grid, r.gems)} :
          LET column(gr, col) == SelectSeq([i \in 1 .. Rows |-> gr[<<i - 1, col>>]],
                                           LAMBDA g : g # 0)
          IN /\ DOMAIN a.grid = DOMAIN r.grid
             /\ \A cell \in DOMAIN a.grid :
                   a.grid[cell] # 0 =>
                      /\ \A row \in (cell[1] + 1) .. (Rows - 1) : a.grid[<<row, cell[2]>>] # 0
                      /\ a.grid[cell] # r.grid[cell] =>
                            /\ a.gems[a.grid[cell]].gridY = cell[1]
                            /\ a.gems[a.grid[cell]].gridX = cell[2]
             /\ \A col \in 0 .. (Cols - 1) : column(a.grid, col) = column(r.grid, col)

\* A removal is pending that leaves a hole with two tiles above it.
C29_Witness ==
    \E p \in ProcIds :
       /\ procs[p].pc = "clearAnim"
       /\ \E col \in 0 .. (Cols - 1) :
             /\ InSeq(grid[<<Rows - 1, col>>], procs[p].list)
             /\ \A row \in 0 .. (Rows - 2) :
                   grid[<<row, col>>] # 0 /\ ~InSeq(grid[<<row, col>>], procs[p].list)
       /\ Rows >= 3

\* C30: applyGravity returns true exactly when some tile is in another row
\* than before, and a second applyGravity right after the first returns false
\* and leaves the board and the tiles' recorded positions as they are.
C30_GravityTwice ==
    \A p \in ProcIds :
       \E r \in {removeGems(grid, gems, procs[p].list)} :
       \E a \in {applyGravity(r.grid, r.gems)} :
       \E b \in {applyGravity(a.grid, a.gems)} :
          /\ a.hasMoved <=> \E cell \in DOMAIN a.grid :
                               a.grid[cell] # 0 /\ a.grid[cell] # r.grid[cell]
          /\ a.hasMoved <=> \E g \in OnBoard(a.grid) : a.gems[g].gridY # r.gems[g].gridY
          /\ ~b.hasMoved
          /\ b.grid = a.grid
          /\ b.gems = a.gems

\* Tiles have fallen and the holes are not refilled yet: the fall animation
\* runs on a board where a first applyGravity moved a tile.
C30_Witness ==
    \E p \in ProcIds :
       /\ procs[p].pc = "fallAnim"
       /\ \E cell \in Cells : grid[cell] = 0
       /\ \E cell \in Cells :
             /\ grid[cell] # 0
             /\ grid[cell] <= Rows * Cols
             /\ cell[1] # (grid[cell] - 1) \div Cols

\* C31: each swapGems of a session, the one after the swap animation and the
\* one after the swap-back animation, exchanges two tiles that are both in
\* the grid at their recorded cells and that are, at that moment, at
\* Manhattan distance 1 from each other.
C31_SwapAdjacent ==
    [][\A p \in ProcIds :
          (procs[p].pc \in {"swapAnim", "backAnim"} /\ procs'[p] # procs[p]) =>
             /\ \A g \in {procs[p].gem1, procs[p].gem2} :
                   /\ <<gems[g].gridY, gems[g].gridX>> \in DOMAIN grid
                   /\ grid[<<gems[g].gridY, gems[g].gridX>>] = g
                   /\ ~gems[g].isMatched
             /\ Abs(gems[procs[p].gem1].gridX - gems[procs[p].gem2].gridX)
                   + Abs(gems[procs[p].gem1].gridY - gems[procs[p].gem2].gridY) = 1]_vars

\* C32: in every state each tile stored in a cell of the grid records that
\* cell's row and column as its position, no tile is stored in two cells and
\* no removed tile is stored in a cell.
C32_GridConsistent ==
    /\ \A cell \in DOMAIN grid :
          grid[cell] # 0 =>
             /\ gems[grid[cell]].gridY = cell[1]
             /\ gems[grid[cell]].gridX = cell[2]
             /\ ~gems[grid[cell]].isMatched
    /\ \A c1, c2 \in DOMAIN grid : (grid[c1] # 0 /\ grid[c1] = grid[c2]) => c1 = c2

\* C33: when the swap animation ends the swap is reverted (the handler goes
\* on to the swap-back animation) exactly when the two tiles are not both
\* specials (plus and plus, bomb and plus, bomb and bomb) and the board after
\* swapGems has no run; a swap that is reverted sets nothing off: the board
\* is the swapped board, no tile is removed and score and moves are as they
\* were.
C33_RevertDecision ==
    [][\A p \in ProcIds :
          (procs[p].pc = "swapAnim" /\ procs'[p] # procs[p]) =>
             \E s \in {swapGems(grid, gems, procs[p].gem1, procs[p].gem2)} :
                /\ procs'[p].pc = "backAnim" <=>
                      /\ ~(/\ gems[procs[p].gem1].special # "none"
                           /\ gems[procs[p].gem2].special # "none")
                      /\ findMatches(s.grid, s.gems) = <<>>
                /\ procs'[p].pc = "backAnim" =>
                      /\ grid' = s.grid
                      /\ gems' = s.gems
                      /\ score' = score
                      /\ moves' = moves]_vars

\* A bomb swapped with a plain tile without a run: the swap-back animation runs.
C33_Witness ==
    \E p \in ProcIds :
       /\ procs[p].pc = "backAnim"
       /\ isBomb(gems, procs[p].gem1) \/ isBomb(gems, procs[p].gem2)
       /\ gems[procs[p].gem1].special = "none" \/ gems[procs[p].gem2].special = "none"
       /\ \A g \in DOMAIN gems : ~gems[g].isMatched
       /\ score = 0

C35_SpecialSwapFrame ==
    [][\A p \in ProcIds :
          (/\ procs[p].pc # "none"
           /\ procs'[p] # procs[p]
           /\ procs[p].gem1 # 0
           /\ gems[procs[p].gem1].special # "none"
           /\ gems[procs[p].gem2].special # "none") =>
             /\ moves' = moves
             /\ procs'[p].pc # "backAnim"
             /\ procs'[p].pc = "none" => state' = "IDLE"]_vars

\* The cascade pass after a swap of two specials: tiles of a run are going,
\* the score is up and the moves are those before the swap.
C35_Witness ==
    \E p \in ProcIds :
       /\ procs[p].pc = "matchAnim"
       /\ gems[procs[p].gem1].special # "none"
       /\ gems[procs[p].gem2].special # "none"
       /\ score > procs[p].before.score
       /\ moves = procs[p].before.moves

\* C36: in a match pass no two spawn requests, of bombs or of pluses, name
\* the same cell, so that right after the two spawn loops the new specials
\* in the grid are as many as the pass counted in its score bonus
\* (bombsSpawned + plusesSpawned) and no created tile was overwritten.
C36_DistinctSpawns ==
    \A p \in ProcIds :
       procs[p].pc = "matchAnim" =>
          \E requests \in {procs[p].bombsToSpawn \o procs[p].plusesToSpawn} :
          \E bg \in {BeforeGravity(p)} :
             /\ \A i, j \in 1 .. Len(requests) :
                   (requests[i].row = requests[j].row /\ requests[i].col = requests[j].col)
                      => i = j
             /\ Cardinality({g \in OnBoard(bg.grid) : g > Len(gems)}) = Len(requests)
             /\ Len(bg.gems) = Len(gems) + Len(requests)

\* C37: in a swap of a bomb and a plus, when the removal animation of the
\* bomb's explosion run ends and explodePlusAt is called, the row and the
\* column of the plus hold no tile: the run set the plus off with the bomb.
\* explodePlusAt removes nothing, starts no removal animation and adds
\* nothing to the score.
C37_PlusFindsNothing ==
    [][\A p \in ProcIds :
          (procs[p].pc = "explAnim" /\ procs[p].ret = "plus" /\ procs'[p] # procs[p]) =>
             \E r \in {removeGems(grid, gems, procs[p].list)} :
             \E plus \in {IF isPlus(gems, procs[p].gem1) THEN procs[p].gem1 ELSE procs[p].gem2} :
                /\ InSeq(plus, procs[p].list)
                /\ TilesIn(r.grid, {cell \in DOMAIN r.grid :
                                       \/ cell[1] = gems[plus].gridY
                                       \/ cell[2] = gems[plus].gridX}) = {}
                /\ procs'[p].pc # "plusAnim"
                /\ score' = score]_vars

====
